---- MODULE Spec2Model ----
(***************************************************************************)
(* A model of the swift-pm release plugin: the exclusion matcher and the   *)
(* archive builder (archive.go), the registry client (registry.go), the   *)
(* manifest rewrite (UpdateVersionConstant) and the two hooks that         *)
(* sequence them (executePrePublish, executePostPublish).                  *)
(*                                                                         *)
(* Strings are sequences of one-character strings, so that HasPrefix,      *)
(* Split, Base and the glob match are computed and not assumed.            *)
(***************************************************************************)
EXTENDS Naturals, Sequences, FiniteSets, TLC

(***************************************************************************)
(* Bounds.                                                                 *)
(***************************************************************************)
\* longest path handed to shouldExclude, in characters
MaxPathLen == 4
\* longest single exclusion pattern, in characters
MaxPatLen == 2
\* longest exclusion list drawn from PatternPool
MaxPatterns == 2
\* most nodes in a source tree
MaxNodes == 4
\* most invocations of Execute in a row
MaxRuns == 2
\* most fragments a manifest file is put together from
MaxChunks == 3
\* the most keys of a raw configuration map
MaxKeys == 2
\* the longest path matched against a list of several patterns
MaxListPathLen == 3

(***************************************************************************)
(* Characters.  Sep is filepath.Separator on the platforms the registry    *)
(* format targets.  "*" is the glob wildcard; "[" opens a character class. *)
(* The alphabet holds no "]" and no "\": a class, once opened, is never    *)
(* closed, which is the malformed pattern filepath.Match reports as        *)
(* ErrBadPattern.                                                          *)
(***************************************************************************)
Sep == "/"

Alphabet == {"a", "b", Sep, "*", "["}

StringsUpTo(n) == UNION {[1..k -> Alphabet] : k \in 0..n}

(***************************************************************************)
(* strings.HasSuffix, strings.TrimSuffix, strings.HasPrefix for the        *)
(* one-character suffix and the prefixes shouldExclude uses.               *)
(***************************************************************************)
HasSuffix(s, c) == Len(s) > 0 /\ s[Len(s)] = c

TrimSuffix(s, c) == IF HasSuffix(s, c) THEN SubSeq(s, 1, Len(s) - 1) ELSE s

HasPrefix(s, p) == Len(s) >= Len(p) /\ SubSeq(s, 1, Len(p)) = p

(***************************************************************************)
(* strings.Split(s, Sep): the segments between separators, empty ones      *)
(* included; Split("") is one empty segment.                               *)
(***************************************************************************)
RECURSIVE SplitFrom(_, _)
SplitFrom(s, cur) ==
  IF s = <<>> THEN <<cur>>
  ELSE IF Head(s) = Sep THEN <<cur>> \o SplitFrom(Tail(s), <<>>)
  ELSE SplitFrom(Tail(s), Append(cur, Head(s)))

Split(s) == SplitFrom(s, <<>>)

(***************************************************************************)
(* filepath.Base: "." for the empty path; trailing separators dropped;     *)
(* the text after the last separator; "/" for a path of separators only.   *)
(***************************************************************************)
RECURSIVE StripTrailingSep(_)
StripTrailingSep(s) ==
  IF HasSuffix(s, Sep) THEN StripTrailingSep(SubSeq(s, 1, Len(s) - 1)) ELSE s

Base(s) ==
  IF s = <<>> THEN <<".">>
  ELSE LET t == StripTrailingSep(s)
           parts == Split(t)
       IN IF t = <<>> THEN <<Sep>> ELSE parts[Len(parts)]

(***************************************************************************)
(* filepath.Match(pattern, name) -> (matched, err).                        *)
(*   "*" matches any run of non-separator characters, "?" one of them,     *)
(*   every other character itself; the whole name must be consumed.        *)
(*   A pattern with an unclosed "[" is malformed: (false, ErrBadPattern).  *)
(***************************************************************************)
BadPattern(pattern) == \E i \in 1..Len(pattern) : pattern[i] = "["

RECURSIVE Glob(_, _)
Glob(p, s) ==
  IF p = <<>> THEN s = <<>>
  ELSE IF Head(p) = "*"
       THEN Glob(Tail(p), s)
            \/ (s # <<>> /\ Head(s) # Sep /\ Glob(p, Tail(s)))
  ELSE IF Head(p) = "?"
       THEN s # <<>> /\ Head(s) # Sep /\ Glob(Tail(p), Tail(s))
  ELSE s # <<>> /\ Head(s) = Head(p) /\ Glob(Tail(p), Tail(s))

\* a Match whose error is taken for a match
MatchErrAsMatch(pattern, name) ==
  IF BadPattern(pattern)
  THEN [matched |-> TRUE, err |-> "ErrBadPattern"]
  ELSE [matched |-> Glob(pattern, name), err |-> "nil"]

Match(pattern, name) ==
  IF BadPattern(pattern)
  THEN [matched |-> FALSE, err |-> "ErrBadPattern"]
  ELSE [matched |-> Glob(pattern, name), err |-> "nil"]

(***************************************************************************)
(* shouldExclude, one iteration of its loop: the four checks made for one  *)
(* pattern.  The error of Match is discarded (matched, _ := ...).          *)
(***************************************************************************)
\* a directory check that forgets the separator after dirPattern
DirPrefixMatchNoSep(path, pattern) ==
  /\ HasSuffix(pattern, Sep)
  /\ HasPrefix(path, TrimSuffix(pattern, Sep))

DirPrefixMatch(path, pattern) ==
  /\ HasSuffix(pattern, Sep)
  /\ LET dirPattern == TrimSuffix(pattern, Sep)
     IN path = dirPattern \/ HasPrefix(path, Append(dirPattern, Sep))

\* a segment check that accepts a match of the start of a segment
SegmentMatchPartial(path, pattern) ==
  LET parts == Split(path)
  IN \E i \in 1..Len(parts) : \E k \in 0..Len(parts[i]) :
        Match(pattern, SubSeq(parts[i], 1, k)).matched

SegmentMatch(path, pattern) ==
  LET parts == Split(path)
  IN \E i \in 1..Len(parts) : Match(pattern, parts[i]).matched

BaseMatch(path, pattern) == Match(pattern, Base(path)).matched

MatchPattern(path, pattern) ==
  \/ DirPrefixMatch(path, pattern)
  \/ path = pattern
  \/ SegmentMatch(path, pattern)
  \/ BaseMatch(path, pattern)

\* for _, pattern := range patterns, from the i-th pattern on: true at the
\* first pattern that matches, false when the list is used up
RECURSIVE ExcludeFrom(_, _, _)
ExcludeFrom(path, patterns, i) ==
  IF i > Len(patterns) THEN FALSE
  ELSE IF MatchPattern(path, patterns[i]) THEN TRUE
  ELSE ExcludeFrom(path, patterns, i + 1)

\* a loop that returns what the first pattern says
shouldExcludeFirstOnly(path, patterns) ==
  patterns # <<>> /\ MatchPattern(path, patterns[1])

shouldExclude(path, patterns) == ExcludeFrom(path, patterns, 1)

(***************************************************************************)
(* Inputs of the exclusion matcher.                                        *)
(***************************************************************************)
\* filepath.Rel returns a cleaned relative path: no segment of it is empty
CleanRel(path) ==
  LET parts == Split(path)
  IN \A i \in 1..Len(parts) : parts[i] # <<>>

\* the relative paths of the nodes a walk can visit below its root
Paths == {s \in StringsUpTo(MaxPathLen) : CleanRel(s)}

Patterns == StringsUpTo(MaxPatLen)

\* the patterns lists are built from: a name, a directory pattern, a glob,
\* a malformed glob, and the exact path of a nested node
PatternPool ==
  { <<"a">>, <<"b", Sep>>, <<"*", "b">>, <<"[">>, <<"a", Sep, "b">> }

PatternLists ==
  {<<p>> : p \in Patterns}
    \cup UNION {[1..k -> PatternPool] : k \in 0..MaxPatterns}

(***************************************************************************)
(* The source tree CreateArchive walks: a set of nodes, each with the path *)
(* relative to sourceDir and what FileInfo.IsDir reports.  Every node lies *)
(* in the root or in a directory of the tree.                              *)
(***************************************************************************)
NodeNames == {"a", "b"}

Node(path, isDir) == [path |-> path, isDir |-> isDir]

ChildPaths(parent) ==
  {(IF parent = <<>> THEN <<>> ELSE Append(parent, Sep)) \o <<n>> : n \in NodeNames}

Grow(tree) ==
  LET parents == {<<>>} \cup {n.path : n \in {m \in tree : m.isDir}}
      taken == {n.path : n \in tree}
      fresh == (UNION {ChildPaths(q) : q \in parents}) \ taken
  IN {tree \cup {Node(q, d)} : q \in fresh, d \in BOOLEAN}

RECURSIVE TreesUpTo(_)
TreesUpTo(n) ==
  IF n = 0 THEN {{}}
  ELSE LET prev == TreesUpTo(n - 1)
       IN prev \cup UNION {Grow(t) : t \in prev}

(***************************************************************************)
(* filepath.Walk visits the root, then the names of each directory in      *)
(* lexical order, depth first: the nodes in the order of their lists of    *)
(* segments.                                                               *)
(***************************************************************************)
CharRank(c) ==
  CASE c = "*" -> 1 [] c = "[" -> 2 [] c = "a" -> 3 [] c = "b" -> 4 [] OTHER -> 0

RECURSIVE NameLess(_, _)
NameLess(x, y) ==
  IF y = <<>> THEN FALSE
  ELSE IF x = <<>> THEN TRUE
  ELSE IF Head(x) # Head(y) THEN CharRank(Head(x)) < CharRank(Head(y))
  ELSE NameLess(Tail(x), Tail(y))

RECURSIVE SegsLess(_, _)
SegsLess(x, y) ==
  IF y = <<>> THEN FALSE
  ELSE IF x = <<>> THEN TRUE
  ELSE IF Head(x) # Head(y) THEN NameLess(Head(x), Head(y))
  ELSE SegsLess(Tail(x), Tail(y))

WalkBefore(p, q) == SegsLess(Split(p), Split(q))

RECURSIVE WalkOrder(_)
WalkOrder(tree) ==
  IF tree = {} THEN <<>>
  ELSE LET first == CHOOSE n \in tree :
                      \A m \in tree \ {n} : WalkBefore(n.path, m.path)
       IN <<first>> \o WalkOrder(tree \ {first})

\* filepath.Rel(sourceDir, sourceDir)
Dot == <<".">>

\* the source directory itself, which filepath.Walk visits first
RootNode == Node(Dot, TRUE)

\* path lies below the directory dir
Below(path, dir) == HasPrefix(path, Append(dir, Sep))

\* a walk that descends into the directory at its head all the same
AfterNoSkipDir(todo) == Tail(todo)

\* what is left of the walk once walkFn has answered for the node at its head
AfterSkipDir(todo) ==
  SelectSeq(Tail(todo), LAMBDA n : ~Below(n.path, Head(todo).path))

(***************************************************************************)
(* The zip container and its digest.  A block is a member (header.Name,    *)
(* method, the bytes copied from the file) or the central directory that   *)
(* zip.Writer.Close writes.  zip.NewWriter buffers what it is given; Close *)
(* flushes the buffer to the file.                                         *)
(***************************************************************************)
\* strings.ReplaceAll(relativePath, string(filepath.Separator), "/")
ToSlash(relPath) == [i \in 1..Len(relPath) |-> IF relPath[i] = Sep THEN "/" ELSE relPath[i]]

\* the bytes of the source file at a relative path
ContentOf(relPath) == <<"bytes", relPath>>

\* the mode bits file.Stat() reports for the source file at a relative path
ModeOf(relPath) == <<"mode", relPath>>

\* a member stored without compression
MemberBlockStored(relPath) ==
  [kind |-> "member", name |-> ToSlash(relPath), method |-> "store",
   mode |-> ModeOf(relPath), body |-> ContentOf(relPath)]

MemberBlock(relPath) ==
  [kind |-> "member", name |-> ToSlash(relPath), method |-> "deflate",
   mode |-> ModeOf(relPath), body |-> ContentOf(relPath)]

RECURSIVE NamesOf(_)
NamesOf(blocks) ==
  IF blocks = <<>> THEN <<>>
  ELSE (IF Head(blocks).kind = "member" THEN <<Head(blocks).name>> ELSE <<>>)
         \o NamesOf(Tail(blocks))

CentralDirectory(blocks) ==
  [kind |-> "directory", name |-> <<>>, method |-> "none", mode |-> <<>>,
   body |-> NamesOf(blocks)]

\* hex.EncodeToString(sha256(bytes)): lowercase hexadecimal of the digest
Sha256Hex(bytes) == [alg |-> "sha256", hex |-> "lower", of |-> bytes]

NoChecksum == [alg |-> "", hex |-> "", of |-> <<>>]

\* a Seek that leaves the offset where the writes left it
SeekNowhere(offset) == offset

\* archiveFile.Seek(0, 0): the offset after it
SeekStart(offset) == 0

\* the steps of CreateArchive that can fail once the temp file exists
FailSteps == {"walk", "zipclose", "seek", "digest", "fclose"}

\* a cleanup that forgets os.Remove when the digest cannot be read
AfterFailureKeepsOnDigest(files, path, step) ==
  IF step = "digest" THEN files ELSE [q \in DOMAIN files \ {path} |-> files[q]]

\* the error paths of CreateArchive: close what is open, os.Remove(archivePath)
AfterFailure(files, path, step) == [q \in DOMAIN files \ {path} |-> files[q]]

(***************************************************************************)
(* The registry client.  A call sends one request and gets a response: a   *)
(* transport failure (httpClient.Do returns an error) or a status and a    *)
(* body.                                                                   *)
(***************************************************************************)
StatusOK == 200
StatusCreated == 201
StatusNotFound == 404

Statuses == {StatusOK, StatusCreated, 204, StatusNotFound, 409, 500}

\* a body that lists a release, as a registry answers GET /{scope}/{name}
ReleasesBody == "{\"releases\":{\"1.0.0\":{}}}"

Bodies == {"", "problem", ReleasesBody}

Responses ==
  {[sent |-> FALSE, status |-> 0, body |-> ""]}
    \cup {[sent |-> TRUE, status |-> st, body |-> b] : st \in Statuses, b \in Bodies}

NoErr == [kind |-> "nil", what |-> "", status |-> 0, body |-> ""]

\* the error httpClient.Do returned, as it is or wrapped
TransportErr(what) == [kind |-> "transport", what |-> what, status |-> 0, body |-> ""]

\* fmt.Errorf("...: status %d: %s", resp.StatusCode, string(body))
StatusErr(what, resp) ==
  [kind |-> "status", what |-> what, status |-> resp.status, body |-> resp.body]

FileErr(what) == [kind |-> "file", what |-> what, status |-> 0, body |-> ""]

Result(releases, exists, text, err) ==
  [releases |-> releases, exists |-> exists, text |-> text, err |-> err]

NoResult == Result(<<>>, FALSE, "", NoErr)

Release(version) == [Version |-> version]

\* a ListReleases that decodes the releases of a 200 response
ListReleasesDecoding(resp) ==
  IF ~resp.sent THEN Result(<<>>, FALSE, "", TransportErr(""))
  ELSE IF resp.status = StatusNotFound THEN Result(<<>>, FALSE, "", NoErr)
  ELSE IF resp.status # StatusOK
  THEN Result(<<>>, FALSE, "", StatusErr("failed to list releases", resp))
  ELSE Result(IF resp.body = ReleasesBody THEN <<Release("1.0.0")>> ELSE <<>>,
              FALSE, "", NoErr)

\* the body of a 200 response is not read: the list returned is empty
ListReleasesResult(resp) ==
  IF ~resp.sent THEN Result(<<>>, FALSE, "", TransportErr(""))
  ELSE IF resp.status = StatusNotFound THEN Result(<<>>, FALSE, "", NoErr)
  ELSE IF resp.status # StatusOK
  THEN Result(<<>>, FALSE, "", StatusErr("failed to list releases", resp))
  ELSE Result(<<>>, FALSE, "", NoErr)

\* a GetRelease that takes every status but 200 for absence
GetReleaseAbsentUnless200(resp, version) ==
  IF ~resp.sent THEN Result(<<>>, FALSE, "", TransportErr(""))
  ELSE IF resp.status # StatusOK THEN Result(<<>>, FALSE, "", NoErr)
  ELSE Result(<<Release(version)>>, FALSE, "", NoErr)

\* the *Release is the list of at most one release: nil is the empty list
GetReleaseResult(resp, version) ==
  IF ~resp.sent THEN Result(<<>>, FALSE, "", TransportErr(""))
  ELSE IF resp.status = StatusNotFound THEN Result(<<>>, FALSE, "", NoErr)
  ELSE IF resp.status # StatusOK
  THEN Result(<<>>, FALSE, "", StatusErr("failed to get release", resp))
  ELSE Result(<<Release(version)>>, FALSE, "", NoErr)

VersionExistsResult(resp, version) ==
  LET got == GetReleaseResult(resp, version)
  IN IF got.err # NoErr THEN Result(<<>>, FALSE, "", got.err)
     ELSE Result(<<>>, got.releases # <<>>, "", NoErr)

\* a Publish that takes every 2xx status for success
PublishResultAny2xx(resp) ==
  IF ~resp.sent THEN Result(<<>>, FALSE, "", TransportErr("publish request failed"))
  ELSE IF ~(resp.status >= 200 /\ resp.status < 300)
  THEN Result(<<>>, FALSE, "", StatusErr("publish failed", resp))
  ELSE NoResult

\* what Publish returns once the request went out
PublishResult(resp) ==
  IF ~resp.sent THEN Result(<<>>, FALSE, "", TransportErr("publish request failed"))
  ELSE IF resp.status # StatusCreated /\ resp.status # StatusOK
  THEN Result(<<>>, FALSE, "", StatusErr("publish failed", resp))
  ELSE NoResult

GetManifestResult(resp) ==
  IF ~resp.sent THEN Result(<<>>, FALSE, "", TransportErr(""))
  ELSE IF resp.status # StatusOK
  THEN Result(<<>>, FALSE, "", StatusErr("failed to get manifest", resp))
  ELSE Result(<<>>, FALSE, resp.body, NoErr)

\* the requests, as the server sees them
Request(method, endpoint, token, accept, ctype, digest, length, body) ==
  [method |-> method, endpoint |-> endpoint, auth |-> <<"Bearer ", token>>,
   accept |-> accept, ctype |-> ctype, digest |-> digest, length |-> length,
   body |-> body]

GetRequest(endpoint, token, accept) ==
  Request("GET", endpoint, token, accept, "", <<>>, 0, <<>>)

\* a client that tries a request a second time
DoWithRetry(log, req) == Append(Append(log, req), req)

\* c.httpClient.Do(req), once per call
Do(log, req) == Append(log, req)

\* a request that leaves the length to the transport
PublishRequestNoLength(scope, name, version, token, data, checksum) ==
  Request("PUT", <<scope, name, version>>, token,
          "application/vnd.swift.registry.v1+json", "application/zip",
          <<"sha-256=", checksum>>, 0, data)

\* req.ContentLength = stat.Size(); Digest: "sha-256=" + checksum; body: the file
PublishRequest(scope, name, version, token, data, checksum) ==
  Request("PUT", <<scope, name, version>>, token,
          "application/vnd.swift.registry.v1+json", "application/zip",
          <<"sha-256=", checksum>>, Len(data), data)

(***************************************************************************)
(* The manifest file and UpdateVersionConstant.  A file is a sequence of   *)
(* tokens: the keyword let, a run of white space, the identifiers N and M, *)
(* an identifier character x, the colon, the type String, the equals sign, *)
(* the double quote q and a character o of a quoted value.  The pattern    *)
(* of UpdateVersionConstant has three groups: let, white space, the name,  *)
(* optional white space, an optional colon and String, the equals sign,    *)
(* optional white space and the opening quote; one or more characters that *)
(* are no quote; the closing quote.  It is matched on the tokens as regexp *)
(* matches it on the bytes.                                                *)
(***************************************************************************)
Ws == "ws"

Quote == "q"

\* \s*: the first position at or after i that holds no white space
RECURSIVE SkipWs(_, _)
SkipWs(s, i) ==
  IF i <= Len(s) /\ s[i] = Ws THEN SkipWs(s, i + 1) ELSE i

At(s, i) == IF i >= 1 /\ i <= Len(s) THEN s[i] ELSE "eof"

\* [^"]+ then ": the position of the first quote at or after i
RECURSIVE NextQuote(_, _)
NextQuote(s, i) ==
  IF i > Len(s) THEN 0
  ELSE IF s[i] = Quote THEN i ELSE NextQuote(s, i + 1)

NoMatch == [ok |-> FALSE, open |-> 0, close |-> 0]

\* the pattern anchored at position i: the positions of the opening quote
\* (the end of group 1) and of the closing quote (group 3)
MatchAt(s, i, constantName) ==
  IF At(s, i) # "let" \/ At(s, i + 1) # Ws THEN NoMatch
  ELSE LET n == SkipWs(s, i + 1)
       IN IF At(s, n) # constantName THEN NoMatch
          ELSE LET a == SkipWs(s, n + 1)
                   t == SkipWs(s, a + 1)
                   e == IF At(s, a) = ":" /\ At(s, t) = "String"
                        THEN SkipWs(s, t + 1) ELSE a
               IN IF At(s, e) # "=" THEN NoMatch
                  ELSE LET o == SkipWs(s, e + 1)
                           c == NextQuote(s, o + 1)
                       IN IF At(s, o) # Quote \/ c = 0 \/ c = o + 1 THEN NoMatch
                          ELSE [ok |-> TRUE, open |-> o, close |-> c]

\* pattern.Match(content)
PatternMatches(s, constantName) ==
  \E i \in 1..Len(s) : MatchAt(s, i, constantName).ok

\* pattern.ReplaceAll(content, "${1}" + version + "${3}") from position i on:
\* the leftmost matches that do not overlap, each with group 2 replaced
RECURSIVE ReplaceAllFrom(_, _, _, _)
ReplaceAllFrom(s, i, constantName, version) ==
  IF i > Len(s) THEN <<>>
  ELSE LET m == MatchAt(s, i, constantName)
       IN IF m.ok
          THEN SubSeq(s, i, m.open) \o version \o <<Quote>>
                 \o ReplaceAllFrom(s, m.close + 1, constantName, version)
          ELSE <<s[i]>> \o ReplaceAllFrom(s, i + 1, constantName, version)

\* a replacement that rewrites the first match only
ReplaceFirst(s, constantName, version) ==
  LET first == CHOOSE i \in 1..Len(s) :
                 /\ MatchAt(s, i, constantName).ok
                 /\ \A j \in 1..(i - 1) : ~MatchAt(s, j, constantName).ok
      m == MatchAt(s, first, constantName)
  IN SubSeq(s, 1, m.open) \o version \o SubSeq(s, m.close, Len(s))

ReplaceAll(s, constantName, version) == ReplaceAllFrom(s, 1, constantName, version)

\* an update that writes the declaration when the file has none
UpdateOrCreate(content, constantName, version) ==
  IF ~PatternMatches(content, constantName)
  THEN [err |-> "nil", wrote |-> TRUE,
        content |-> content \o <<"let", Ws, constantName, "=", Quote>> \o version \o <<Quote>>]
  ELSE [err |-> "nil", wrote |-> TRUE,
        content |-> ReplaceAll(content, constantName, version)]

\* UpdateVersionConstant once the file was read: the error, whether
\* os.WriteFile was called, and what the file then holds
UpdateVersionConstant(content, constantName, version) ==
  IF ~PatternMatches(content, constantName)
  THEN [err |-> "notfound", wrote |-> FALSE, content |-> content]
  ELSE [err |-> "nil", wrote |-> TRUE,
        content |-> ReplaceAll(content, constantName, version)]

\* the fragments manifests are put together from: declarations of N with and
\* without the annotation, of other constants, of names N is a part of, with
\* an empty value, without white space after let, and other text
Chunk(decl, tokens) == [decl |-> decl, tokens |-> tokens]

ChunkPool ==
  { Chunk("N", <<"let", Ws, "N", Ws, "=", Ws, Quote, "o", Quote>>),
    Chunk("N", <<"let", Ws, "N", ":", Ws, "String", Ws, "=", Quote, "o", "o", Quote>>),
    Chunk("M", <<"let", Ws, "M", Ws, "=", Ws, Quote, "o", Quote>>),
    Chunk("", <<"let", Ws, "N", "x", "=", Quote, "o", Quote>>),
    Chunk("", <<"let", Ws, "x", "N", "=", Quote, "o", Quote>>),
    Chunk("", <<"let", Ws, "N", Ws, "=", Quote, Quote>>),
    Chunk("", <<"let", "N", "=", Quote, "o", Quote>>),
    Chunk("", <<"x", "=", Quote, "o", Quote>>),
    Chunk("", <<Ws>>) }

ChunkLists == UNION {[1..k -> ChunkPool] : k \in 0..MaxChunks}

RECURSIVE Flatten(_)
Flatten(chunks) ==
  IF chunks = <<>> THEN <<>> ELSE Head(chunks).tokens \o Flatten(Tail(chunks))

ConstantNames == {"N", "M"}

NewVersion == <<"2.0.0">>

(***************************************************************************)
(* ExtractSwiftToolsVersion.  A manifest is read here as a sequence of     *)
(* tokens: the slash, a blank (Ws), the end of a line (Nl), the keyword    *)
(* swift-tools-version with its colon (Directive), the digits 5 and 7, the *)
(* dot, and a character x of other text.  The pattern is two slashes,      *)
(* optional white space, the keyword, optional white space, and one group: *)
(* digits, a dot, digits, and optionally a dot and digits.  It is not      *)
(* anchored: FindSubmatch returns the leftmost match in the whole file.    *)
(***************************************************************************)
Nl == "nl"

Directive == "swift-tools-version:"

Digits == {"5", "7"}

\* \s matches blanks and line ends alike
RECURSIVE SkipSpace(_, _)
SkipSpace(s, i) ==
  IF i <= Len(s) /\ s[i] \in {Ws, Nl} THEN SkipSpace(s, i + 1) ELSE i

\* \d+, greedy: the first position at or after i that holds no digit
RECURSIVE SkipDigits(_, _)
SkipDigits(s, i) ==
  IF i <= Len(s) /\ s[i] \in Digits THEN SkipDigits(s, i + 1) ELSE i

NoVersion == <<>>

\* the pattern anchored at position i: the text of group 1, or NoVersion
ToolsMatchAt(s, i) ==
  IF At(s, i) # "/" \/ At(s, i + 1) # "/" THEN NoVersion
  ELSE LET k == SkipSpace(s, i + 2)
       IN IF At(s, k) # Directive THEN NoVersion
          ELSE LET v  == SkipSpace(s, k + 1)
                   d1 == SkipDigits(s, v)
                   d2 == SkipDigits(s, d1 + 1)
                   d3 == SkipDigits(s, d2 + 1)
               IN IF d1 = v \/ At(s, d1) # "." \/ d2 = d1 + 1 THEN NoVersion
                  ELSE IF At(s, d2) = "." /\ d3 > d2 + 1
                       THEN SubSeq(s, v, d3 - 1)
                       ELSE SubSeq(s, v, d2 - 1)

\* pattern.FindSubmatch(content): group 1 of the leftmost match
RECURSIVE FindSubmatchFrom(_, _)
FindSubmatchFrom(s, i) ==
  IF i > Len(s) THEN NoVersion
  ELSE IF ToolsMatchAt(s, i) # NoVersion THEN ToolsMatchAt(s, i)
       ELSE FindSubmatchFrom(s, i + 1)

\* ExtractSwiftToolsVersion once the file was read
ExtractSwiftToolsVersion(content) ==
  LET group == FindSubmatchFrom(content, 1)
  IN IF group = NoVersion
     THEN [err |-> "notfound", version |-> NoVersion]
     ELSE [err |-> "nil", version |-> group]

\* the lines manifests are put together from, each with the version it
\* declares when it is a directive: the directive without and with a blank
\* after the colon, without a blank after the slashes and with a patch
\* component, with two digits in a component, with one component only, an
\* ordinary comment, and a line of code
Line(version, tokens) == [version |-> version, tokens |-> tokens]

LinePool ==
  { Line(<<"5", ".", "7">>, <<"/", "/", Ws, Directive, "5", ".", "7", Nl>>),
    Line(<<"7", ".", "5">>, <<"/", "/", Ws, Directive, Ws, "7", ".", "5", Nl>>),
    Line(<<"5", ".", "7", ".", "5">>, <<"/", "/", Directive, "5", ".", "7", ".", "5", Nl>>),
    Line(<<"5", "7", ".", "5">>, <<"/", "/", Ws, Directive, "5", "7", ".", "5", Nl>>),
    Line(NoVersion, <<"/", "/", Ws, Directive, "5", Nl>>),
    Line(NoVersion, <<"/", "/", Ws, "x", Nl>>),
    Line(NoVersion, <<"x", Ws, "x", Nl>>) }

LineLists == UNION {[1..k -> LinePool] : k \in 0..MaxChunks}

(***************************************************************************)
(* parseConfig and Validate.  The raw configuration is a map from keys to  *)
(* values of any type; a value is written here with its dynamic type t and *)
(* the string, boolean, list or map it holds.  A type assertion            *)
(* raw[key].(T) succeeds when the key is present with a value of type T.   *)
(***************************************************************************)
Value(t, str, b, l, m) == [t |-> t, s |-> str, b |-> b, l |-> l, m |-> m]

StringValue(str) == Value("string", str, FALSE, <<>>, <<>>)

BoolValue(b) == Value("bool", "", b, <<>>, <<>>)

NumberValue == Value("number", "7", FALSE, <<>>, <<>>)

ListValue(l) == Value("list", "", FALSE, l, <<>>)

MapValue(m) == Value("map", "", FALSE, <<>>, m)

\* v, ok := raw[key].(T)
Has(raw, key, t) == key \in DOMAIN raw /\ raw[key].t = t

\* for _, e := range excludeList: the string elements, in order
RECURSIVE StringsOf(_)
StringsOf(l) ==
  IF l = <<>> THEN <<>>
  ELSE (IF Head(l).t = "string" THEN <<Head(l).s>> ELSE <<>>) \o StringsOf(Tail(l))

\* the exclude list read from raw["archive"]["exclude"]
ParsedExclude(raw) ==
  IF Has(raw, "archive", "map") /\ Has(raw["archive"].m, "exclude", "list")
  THEN StringsOf(raw["archive"].m["exclude"].l)
  ELSE <<>>

DefaultExclude == <<".git", ".build", "Tests", "*.xcodeproj">>

\* an exclude list taken as it was given
ExcludeAsGiven(exclude) == exclude

\* if len(exclude) == 0: the defaults
ExcludeOrDefault(exclude) == IF Len(exclude) = 0 THEN DefaultExclude ELSE exclude

TestConfig(configuration, coverage, parallel) ==
  [configuration |-> configuration, coverage |-> coverage, parallel |-> parallel]

\* a test configuration that keeps nothing of the defaults once the map
\* has a test_config
ParseTestConfigReplacing(raw) ==
  IF Has(raw, "test_config", "map")
  THEN LET testRaw == raw["test_config"].m
       IN TestConfig(IF Has(testRaw, "configuration", "string")
                     THEN testRaw["configuration"].s ELSE "",
                     Has(testRaw, "coverage", "bool") /\ testRaw["coverage"].b,
                     Has(testRaw, "parallel", "bool") /\ testRaw["parallel"].b)
  ELSE TestConfig("debug", FALSE, TRUE)

\* the test configuration: the defaults, each overridden by the entry of
\* raw["test_config"] that has its type
ParseTestConfig(raw) ==
  IF Has(raw, "test_config", "map")
  THEN LET testRaw == raw["test_config"].m
       IN TestConfig(IF Has(testRaw, "configuration", "string")
                     THEN testRaw["configuration"].s ELSE "debug",
                     IF Has(testRaw, "coverage", "bool")
                     THEN testRaw["coverage"].b ELSE FALSE,
                     IF Has(testRaw, "parallel", "bool")
                     THEN testRaw["parallel"].b ELSE TRUE)
  ELSE TestConfig("debug", FALSE, TRUE)

\* the archive configuration: include_docs true unless overridden
ParseArchiveConfig(raw) ==
  [includeDocs |-> IF Has(raw, "archive", "map")
                      /\ Has(raw["archive"].m, "include_docs", "bool")
                   THEN raw["archive"].m["include_docs"].b ELSE TRUE,
   exclude |-> ExcludeOrDefault(ParsedExclude(raw))]

\* parser.GetString(key, envVar, default): the string of the map, else the
\* environment variable when one is named and set, else the default
GetString(raw, env, key, envVar, default) ==
  IF Has(raw, key, "string") /\ raw[key].s # "" THEN raw[key].s
  ELSE IF envVar # "" /\ envVar \in DOMAIN env THEN env[envVar]
  ELSE default

\* parser.GetBool(key, default)
GetBool(raw, key, default) ==
  IF Has(raw, key, "bool") THEN raw[key].b ELSE default

parseConfig(raw, env) ==
  [registry |-> GetString(raw, env, "registry", "SWIFT_REGISTRY_URL",
                          "https://swift.pkg.github.com"),
   scope |-> GetString(raw, env, "scope", "SWIFT_PACKAGE_SCOPE", ""),
   token |-> GetString(raw, env, "token", "SWIFT_REGISTRY_TOKEN", ""),
   packageName |-> GetString(raw, env, "package_name", "", ""),
   manifestPath |-> GetString(raw, env, "manifest_path", "", "Package.swift"),
   updateManifest |-> GetBool(raw, "update_manifest", FALSE),
   versionConstant |-> GetString(raw, env, "version_constant", "", "packageVersion"),
   createTag |-> GetBool(raw, "create_tag", TRUE),
   tagPrefix |-> GetString(raw, env, "tag_prefix", "", ""),
   validate |-> GetBool(raw, "validate", TRUE),
   build |-> GetBool(raw, "build", TRUE),
   test |-> GetBool(raw, "test", TRUE),
   testConfig |-> ParseTestConfig(raw),
   archive |-> ParseArchiveConfig(raw),
   dryRun |-> GetBool(raw, "dry_run", FALSE)]

\* url.Parse fails on the URL of TestSwiftPMPlugin_Validate that has no
\* scheme before its colon
InvalidURL == "://invalid-url"

UrlParseFails(u) == u = InvalidURL

\* what os.Stat can return for the manifest path
StatErrors == {"nil", "ENOENT", "ENOTDIR", "EACCES"}

\* os.IsNotExist(err)
IsNotExist(err) == err = "ENOENT"

\* vb.AddError(field, message) when the check fails
AddErrorIf(failed, field) == IF failed THEN <<field>> ELSE <<>>

\* a validation that stops at the first failing check
ValidateFirstOnly(raw, env, world) ==
  LET cfg == parseConfig(raw, env)
      all == AddErrorIf(~world.swift, "swift")
               \o AddErrorIf(cfg.scope = "", "scope")
               \o AddErrorIf(cfg.token = "", "token")
               \o AddErrorIf(cfg.registry # "" /\ UrlParseFails(cfg.registry), "registry")
               \o AddErrorIf(IsNotExist(world.stat), "manifest_path")
  IN [valid |-> all = <<>>, errors |-> SubSeq(all, 1, 1), goErr |-> FALSE]

\* Validate: the fields of the errors added, in order, and vb.Build()
Validate(raw, env, world) ==
  LET cfg == parseConfig(raw, env)
      errors == AddErrorIf(~world.swift, "swift")
                  \o AddErrorIf(cfg.scope = "", "scope")
                  \o AddErrorIf(cfg.token = "", "token")
                  \o AddErrorIf(cfg.registry # "" /\ UrlParseFails(cfg.registry), "registry")
                  \o AddErrorIf(IsNotExist(world.stat), "manifest_path")
  IN [valid |-> errors = <<>>, errors |-> errors, goErr |-> FALSE]

\* the raw maps parseConfig is called on: the entries of
\* TestSwiftPMPlugin_ParseConfig, each option with a value that is not its
\* default, and entries whose value has another type than the one asserted
Entry(key, value) == [key |-> key, value |-> value]

RECURSIVE MapsUpTo(_, _)
MapsUpTo(entries, n) ==
  IF n = 0 THEN {<<>>}
  ELSE LET prev == MapsUpTo(entries, n - 1)
       IN prev \cup UNION {{m @@ (e.key :> e.value) :
                              e \in {x \in entries : x.key \notin DOMAIN m}} : m \in prev}

TestConfigEntries ==
  { Entry("configuration", StringValue("release")),
    Entry("coverage", BoolValue(TRUE)),
    Entry("coverage", NumberValue),
    Entry("parallel", BoolValue(FALSE)),
    Entry("parallel", StringValue("no")) }

ExcludeLists ==
  { <<>>,
    <<StringValue("custom-dir"), StringValue("*.log")>>,
    <<NumberValue>>,
    <<StringValue("custom-dir"), NumberValue>> }

ArchiveEntries ==
  { Entry("include_docs", BoolValue(FALSE)),
    Entry("include_docs", StringValue("no")),
    Entry("exclude", StringValue("custom-dir")) }
    \cup {Entry("exclude", ListValue(l)) : l \in ExcludeLists}

TopEntries ==
  { Entry("registry", StringValue("https://custom.registry.com")),
    Entry("registry", StringValue(InvalidURL)),
    Entry("scope", StringValue("myorg")),
    Entry("token", StringValue("secret-token")),
    Entry("package_name", StringValue("MyPackage")),
    Entry("manifest_path", StringValue("Sources/Package.swift")),
    Entry("update_manifest", BoolValue(TRUE)),
    Entry("version_constant", StringValue("version")),
    Entry("create_tag", BoolValue(FALSE)),
    Entry("tag_prefix", StringValue("v")),
    Entry("validate", BoolValue(FALSE)),
    Entry("build", BoolValue(FALSE)),
    Entry("test", BoolValue(FALSE)),
    Entry("dry_run", BoolValue(TRUE)),
    Entry("test_config", NumberValue),
    Entry("archive", NumberValue) }
    \cup {Entry("test_config", MapValue(m)) : m \in MapsUpTo(TestConfigEntries, 3)}
    \cup {Entry("archive", MapValue(m)) : m \in MapsUpTo(ArchiveEntries, 2)}

RawMaps == MapsUpTo(TopEntries, MaxKeys)

\* the options Validate looks at
ValidateKeys == {"registry", "scope", "token", "manifest_path"}

ValidateMaps == {m \in RawMaps : DOMAIN m \subseteq ValidateKeys}

\* the environment: each of the three variables set or not
EnvValue ==
  [v \in {"SWIFT_REGISTRY_URL", "SWIFT_PACKAGE_SCOPE", "SWIFT_REGISTRY_TOKEN"} |->
     IF v = "SWIFT_REGISTRY_URL" THEN "https://env.registry.com"
     ELSE IF v = "SWIFT_PACKAGE_SCOPE" THEN "envorg" ELSE "env-token"]

Envs == {[v \in set |-> EnvValue[v]] : set \in SUBSET DOMAIN EnvValue}

\* whether swift is in PATH (exec.LookPath), whether the manifest file
\* exists and what os.Stat returns for its path: an existing file may be out
\* of reach (EACCES), a missing one is reported as ENOENT, as ENOTDIR when a
\* part of its path is no directory, or as EACCES
Worlds ==
  {w \in [swift : BOOLEAN, exists : BOOLEAN, stat : StatErrors] :
     IF w.exists THEN w.stat \in {"nil", "EACCES"} ELSE w.stat # "nil"}

VARIABLES
  exPc, exPath, exPatterns, exResult,
  srcTree, arExclude, arPc, arTodo, zipBuf, arOffset, arHash, arPath, arRet,
  arVersion, arIncludeDocs,
  tmpFiles, tmpSeq,
  rcPc, rcOp, rcResp, rcResult,
  httpLog,
  hkPc, cfg, runs, hkName, hkArch, hkDefer, hkResp, hkHistory,
  hkHook, hkTrace,
  regReleases, gitTags,
  procLog, ctx,
  manifest, mfSource, mfPc, mfName, mfResult,
  cfPc, cfRaw, cfEnv, cfWorld, cfOut, vdResp

\* shouldExclude called on its own
exVars == <<exPc, exPath, exPatterns, exResult>>

\* CreateArchive: its arguments, its position, its locals, what it returned
arVars == <<srcTree, arExclude, arPc, arTodo, zipBuf, arOffset, arHash, arPath, arRet,
            arVersion, arIncludeDocs>>

\* the temp directory: the bytes of each file in it, and the names used up
fsVars == <<tmpFiles, tmpSeq>>

\* a registry client call made on its own
rcVars == <<rcPc, rcOp, rcResp, rcResult>>

\* the requests handed to httpClient.Do, in order
netVars == <<httpLog>>

\* Execute: its configuration, its position, its locals, its responses so far
hkVars == <<hkPc, cfg, runs, hkName, hkArch, hkDefer, hkResp, hkHistory, hkHook, hkTrace>>

\* the registry's releases and the repository's tags
envVars == <<regReleases, gitTags>>

\* the external processes started, in order, and the caller's context
osVars == <<procLog, ctx>>

\* the manifest file, the fragments it was put together from, and
\* UpdateVersionConstant called on its own
mfVars == <<manifest, mfSource, mfPc, mfName, mfResult>>

\* parseConfig and Validate called on their own: the raw map, the
\* environment, the PATH and the file system, and what they returned
cfVars == <<cfPc, cfRaw, cfEnv, cfWorld, cfOut, vdResp>>

vars == <<exVars, arVars, fsVars, rcVars, netVars, hkVars, envVars, osVars, mfVars,
          cfVars>>

NoPath == <<>>

NoRet == [path |-> NoPath, checksum |-> NoChecksum, err |-> "unset"]

ExcludeIdle ==
  /\ exPc = "idle"
  /\ exPath = <<>>
  /\ exPatterns = <<>>
  /\ exResult = FALSE

ArchiveIdle ==
  /\ arPc = "idle"
  /\ arVersion = ""
  /\ arIncludeDocs = TRUE
  /\ arTodo = <<>>
  /\ zipBuf = <<>>
  /\ arOffset = 0
  /\ arHash = NoChecksum
  /\ arPath = NoPath
  /\ arRet = NoRet

FsInit ==
  /\ tmpFiles = <<>>
  /\ tmpSeq = 0

ClientIdle ==
  /\ rcPc = "idle"
  /\ rcOp = "none"
  /\ rcResp = [sent |-> FALSE, status |-> 0, body |-> ""]
  /\ rcResult = NoResult
  /\ httpLog = <<>>

NoArchive == [path |-> NoPath, checksum |-> NoChecksum]

NoResp == [success |-> FALSE, at |-> "unset", goErr |-> FALSE, status |-> 0]

NoConfig ==
  [dryRun |-> FALSE, packageName |-> "", registry |-> "", createTag |-> FALSE,
   validate |-> FALSE, build |-> FALSE, test |-> FALSE, updateManifest |-> FALSE]

\* a context nobody has cancelled
NoCtx == [cancelled |-> FALSE, hk |-> "", ar |-> ""]

NoUpdate == [err |-> "unset", wrote |-> FALSE]

ManifestIdle ==
  /\ manifest = <<>>
  /\ mfSource = <<>>
  /\ mfPc = "idle"
  /\ mfName = ""
  /\ mfResult = NoUpdate

NoWorld == [swift |-> FALSE, exists |-> FALSE, stat |-> "unset"]

NoValidation == [valid |-> FALSE, errors |-> <<>>, goErr |-> FALSE]

ConfigIdle ==
  /\ cfPc = "idle"
  /\ cfRaw = <<>>
  /\ cfEnv = <<>>
  /\ cfWorld = NoWorld
  /\ cfOut = NoConfig
  /\ vdResp = NoValidation

HookIdle ==
  /\ hkPc = "off"
  /\ cfg = NoConfig
  /\ runs = 0
  /\ hkName = ""
  /\ hkArch = NoArchive
  /\ hkDefer = FALSE
  /\ hkResp = NoResp
  /\ hkHistory = <<>>
  /\ hkHook = "none"
  /\ hkTrace = <<>>
  /\ regReleases = {}
  /\ gitTags = {}
  /\ procLog = <<>>
  /\ ctx = NoCtx

(***************************************************************************)
(* shouldExclude called on its own, as TestShouldExclude does.             *)
(***************************************************************************)
ExcludeInit ==
  /\ exPc = "call"
  /\ exPath \in Paths
  /\ exPatterns \in PatternLists
  /\ exResult = FALSE
  /\ srcTree = {}
  /\ arExclude = <<>>
  /\ ArchiveIdle
  /\ FsInit
  /\ ClientIdle
  /\ HookIdle
  /\ ConfigIdle
  /\ ManifestIdle

ExcludeCall ==
  /\ exPc = "call"
  /\ exResult' = shouldExclude(exPath, exPatterns)
  /\ exPc' = "ret"
  /\ UNCHANGED <<exPath, exPatterns, arVars, fsVars, rcVars, netVars, hkVars, envVars,
                 osVars, mfVars, cfVars>>

SpecExclude == ExcludeInit /\ [][ExcludeCall]_vars

\* shouldExclude called on lists of patterns of every length and order
ListPaths == {path \in Paths : Len(path) <= MaxListPathLen}

PoolLists == UNION {[1..k -> PatternPool] : k \in 0..MaxPatterns}

ExcludeListsInit ==
  /\ exPc = "call"
  /\ exPath \in ListPaths
  /\ exPatterns \in PoolLists
  /\ exResult = FALSE
  /\ srcTree = {}
  /\ arExclude = <<>>
  /\ ArchiveIdle
  /\ FsInit
  /\ ClientIdle
  /\ HookIdle
  /\ ConfigIdle
  /\ ManifestIdle

SpecExcludeLists == ExcludeListsInit /\ [][ExcludeCall]_vars

(***************************************************************************)
(* CreateArchive(sourceDir, version, cfg), step by step.                   *)
(***************************************************************************)
TempPath(n) == <<"swift-package-", n, ".zip">>

ArFailed(files, step) ==
  /\ tmpFiles' = files
  /\ arRet' = [path |-> NoPath, checksum |-> NoChecksum, err |-> step]
  /\ arPc' = "failed"

\* os.CreateTemp: a new, empty file under a name no file has, or an error
ArCreateTemp ==
  /\ arPc = "create"
  /\ \/ /\ arPath' = TempPath(tmpSeq + 1)
        /\ tmpSeq' = tmpSeq + 1
        /\ tmpFiles' = (TempPath(tmpSeq + 1) :> <<>>) @@ tmpFiles
        /\ arTodo' = <<RootNode>> \o WalkOrder(srcTree)
        /\ zipBuf' = <<>>
        /\ arOffset' = 0
        /\ arPc' = "walk"
        /\ UNCHANGED <<arHash, arRet>>
     \/ /\ ArFailed(tmpFiles, "createtemp")
        /\ UNCHANGED <<arPath, tmpSeq, arTodo, zipBuf, arOffset, arHash>>
  /\ UNCHANGED <<exVars, rcVars, netVars, hkVars, envVars, osVars, mfVars, cfVars,
                 arVersion, arIncludeDocs, srcTree, arExclude>>

\* a walk function that leaves the documentation out when told to
ExcludedOrDocs(relPath) ==
  shouldExclude(relPath, arExclude) \/ (~arIncludeDocs /\ relPath = <<"b">>)

\* shouldExclude(relPath, cfg.Exclude)
Excluded(relPath) == shouldExclude(relPath, arExclude)

\* the walk function on the next node: pass over the root, prune, skip,
\* pass over a directory, or add
ArVisit ==
  /\ arPc = "walk"
  /\ arTodo # <<>>
  /\ LET node == Head(arTodo)
         relPath == node.path
     IN IF relPath = Dot
        THEN /\ arTodo' = Tail(arTodo)
             /\ UNCHANGED zipBuf
        ELSE IF Excluded(relPath)
        THEN /\ arTodo' = IF node.isDir THEN AfterSkipDir(arTodo) ELSE Tail(arTodo)
             /\ UNCHANGED zipBuf
        ELSE IF node.isDir
        THEN /\ arTodo' = Tail(arTodo)
             /\ UNCHANGED zipBuf
        ELSE /\ arTodo' = Tail(arTodo)
             /\ zipBuf' = Append(zipBuf, MemberBlock(relPath))
  /\ UNCHANGED <<exVars, rcVars, netVars, hkVars, envVars, osVars, mfVars, cfVars,
                 arVersion, arIncludeDocs, srcTree, arExclude, arPc, arOffset, arHash, arPath, arRet, fsVars>>

\* filepath.Walk returns nil
ArWalkDone ==
  /\ arPc = "walk"
  /\ arTodo = <<>>
  /\ arPc' = "zipclose"
  /\ UNCHANGED <<exVars, rcVars, netVars, hkVars, envVars, osVars, mfVars, cfVars,
                 arVersion, arIncludeDocs, srcTree, arExclude, arTodo, zipBuf, arOffset, arHash, arPath, arRet, fsVars>>

\* zipWriter.Close: the central directory, then everything buffered, reach
\* the file, whose offset is then its end
ArZipClose ==
  /\ arPc = "zipclose"
  /\ LET data == tmpFiles[arPath] \o zipBuf \o <<CentralDirectory(zipBuf)>>
     IN /\ tmpFiles' = [tmpFiles EXCEPT ![arPath] = data]
        /\ arOffset' = Len(data)
  /\ zipBuf' = <<>>
  /\ arPc' = "seek"
  /\ UNCHANGED <<exVars, rcVars, netVars, hkVars, envVars, osVars, mfVars, cfVars,
                 arVersion, arIncludeDocs, srcTree, arExclude, arTodo, arHash, arPath, arRet, tmpSeq>>

\* archiveFile.Seek(0, 0)
ArSeek ==
  /\ arPc = "seek"
  /\ arOffset' = SeekStart(arOffset)
  /\ arPc' = "digest"
  /\ UNCHANGED <<exVars, rcVars, netVars, hkVars, envVars, osVars, mfVars, cfVars,
                 arVersion, arIncludeDocs, srcTree, arExclude, arTodo, zipBuf, arHash, arPath, arRet, fsVars>>

\* io.Copy(hash, archiveFile): the bytes from the offset to the end
ArDigest ==
  /\ arPc = "digest"
  /\ LET data == tmpFiles[arPath]
     IN /\ arHash' = Sha256Hex(SubSeq(data, arOffset + 1, Len(data)))
        /\ arOffset' = Len(data)
  /\ arPc' = "fclose"
  /\ UNCHANGED <<exVars, rcVars, netVars, hkVars, envVars, osVars, mfVars, cfVars,
                 arVersion, arIncludeDocs, srcTree, arExclude, arTodo, zipBuf, arPath, arRet, fsVars>>

\* archiveFile.Close, then return archivePath, checksum, nil
ArFileClose ==
  /\ arPc = "fclose"
  /\ arRet' = [path |-> arPath, checksum |-> arHash, err |-> "nil"]
  /\ arPc' = "done"
  /\ UNCHANGED <<exVars, rcVars, netVars, hkVars, envVars, osVars, mfVars, cfVars,
                 arVersion, arIncludeDocs, srcTree, arExclude, arTodo, zipBuf, arOffset, arHash, arPath, fsVars>>

\* an I/O error at any step after the temp file was created: the walk
\* function is handed or returns an error, or Close, Seek, Copy fail
ArFail ==
  /\ arPc \in FailSteps
  /\ ArFailed(AfterFailure(tmpFiles, arPath, arPc), arPc)
  /\ zipBuf' = <<>>
  /\ UNCHANGED <<exVars, rcVars, netVars, hkVars, envVars, osVars, mfVars, cfVars,
                 arVersion, arIncludeDocs, srcTree, arExclude, arTodo, arOffset, arHash, arPath, tmpSeq>>

ArchiveSteps ==
  \/ ArCreateTemp
  \/ ArVisit
  \/ ArWalkDone
  \/ ArZipClose
  \/ ArSeek
  \/ ArDigest
  \/ ArFileClose
  \/ ArFail

\* the version argument of CreateArchive
Versions == {"1.0.0", "2.0.0"}

\* cfg.Exclude: no pattern, one pattern, or a directory and a nested path
ArchiveExcludes ==
  {<<>>} \cup {<<p>> : p \in PatternPool} \cup {<< <<"b", Sep>>, <<"a", Sep, "b">> >>}

\* CreateArchive called on its own, as TestCreateArchive does
ArchiveInit ==
  /\ ExcludeIdle
  /\ srcTree \in TreesUpTo(MaxNodes)
  /\ arExclude \in ArchiveExcludes
  /\ arPc = "create"
  /\ arTodo = <<>>
  /\ zipBuf = <<>>
  /\ arOffset = 0
  /\ arHash = NoChecksum
  /\ arPath = NoPath
  /\ arRet = NoRet
  /\ arVersion \in Versions
  /\ arIncludeDocs \in BOOLEAN
  /\ FsInit
  /\ ClientIdle
  /\ HookIdle
  /\ ConfigIdle
  /\ ManifestIdle

SpecArchive == ArchiveInit /\ [][ArchiveSteps]_vars

(***************************************************************************)
(* The registry client's operations called on their own against a server   *)
(* that answers as it likes, as the tests' httptest servers do.            *)
(***************************************************************************)
Scope == "org"
PkgName == "Pkg"
Version == "1.0.0"
Token == "tok"

Ops == {"ListReleases", "GetRelease", "VersionExists", "Publish", "GetManifest"}

TestArchivePath == <<"test-", 1, ".zip">>

TestArchiveData == <<[kind |-> "raw", name |-> <<>>, method |-> "none", mode |-> <<>>,
                      body |-> <<"test archive content">>]>>

TestChecksum == [alg |-> "", hex |-> "", of |-> <<"abc123checksum">>]

JsonAccept == "application/vnd.swift.registry.v1+json"

ClientInit ==
  /\ ExcludeIdle
  /\ srcTree = {}
  /\ arExclude = <<>>
  /\ ArchiveIdle
  /\ tmpFiles \in {<<>>, (TestArchivePath :> TestArchiveData)}
  /\ tmpSeq = 0
  /\ rcPc = "call"
  /\ rcOp \in Ops
  /\ rcResp \in Responses
  /\ rcResult = NoResult
  /\ httpLog = <<>>
  /\ HookIdle
  /\ ConfigIdle
  /\ ManifestIdle

RcDone(result) ==
  /\ rcResult' = result
  /\ rcPc' = "ret"
  /\ UNCHANGED <<rcOp, rcResp, exVars, arVars, fsVars, hkVars, envVars, osVars, mfVars, cfVars>>

RcListReleases ==
  /\ rcPc = "call" /\ rcOp = "ListReleases"
  /\ httpLog' = Do(httpLog, GetRequest(<<Scope, PkgName>>, Token, JsonAccept))
  /\ RcDone(ListReleasesResult(rcResp))

RcGetRelease ==
  /\ rcPc = "call" /\ rcOp = "GetRelease"
  /\ httpLog' = Do(httpLog, GetRequest(<<Scope, PkgName, Version>>, Token, JsonAccept))
  /\ RcDone(GetReleaseResult(rcResp, Version))

RcVersionExists ==
  /\ rcPc = "call" /\ rcOp = "VersionExists"
  /\ httpLog' = Do(httpLog, GetRequest(<<Scope, PkgName, Version>>, Token, JsonAccept))
  /\ RcDone(VersionExistsResult(rcResp, Version))

\* os.Open(archivePath) fails and nothing is sent, or the file is the body
RcPublish ==
  /\ rcPc = "call" /\ rcOp = "Publish"
  /\ IF TestArchivePath \in DOMAIN tmpFiles
     THEN /\ httpLog' = Do(httpLog,
                 PublishRequest(Scope, PkgName, Version, Token,
                                tmpFiles[TestArchivePath], TestChecksum))
          /\ RcDone(PublishResult(rcResp))
     ELSE /\ UNCHANGED httpLog
          /\ RcDone(Result(<<>>, FALSE, "", FileErr("failed to open archive")))

RcGetManifest ==
  /\ rcPc = "call" /\ rcOp = "GetManifest"
  /\ httpLog' = Do(httpLog,
         GetRequest(<<Scope, PkgName, Version, "Package.swift">>, Token, "text/x-swift"))
  /\ RcDone(GetManifestResult(rcResp))

ClientCalls ==
  \/ RcListReleases
  \/ RcGetRelease
  \/ RcVersionExists
  \/ RcPublish
  \/ RcGetManifest

SpecRegistry == ClientInit /\ [][ClientCalls]_vars

(***************************************************************************)
(* UpdateVersionConstant called on its own, as TestUpdateVersionConstant   *)
(* does, on the files put together from the fragments of ChunkPool.        *)
(***************************************************************************)
\* os.ReadFile can fail; os.WriteFile, called only when the pattern
\* matches, can fail before or after it has truncated the file
UpdateOutcomes(content, constantName, version) ==
  LET r == UpdateVersionConstant(content, constantName, version)
  IN {[err |-> "read", wrote |-> FALSE, content |-> content]}
       \cup (IF r.wrote
             THEN {r, [err |-> "write", wrote |-> TRUE, content |-> content],
                      [err |-> "write", wrote |-> TRUE, content |-> <<>>]}
             ELSE {r})

ManifestInit ==
  /\ ExcludeIdle
  /\ srcTree = {}
  /\ arExclude = <<>>
  /\ ArchiveIdle
  /\ FsInit
  /\ ClientIdle
  /\ HookIdle
  /\ ConfigIdle
  /\ mfSource \in ChunkLists
  /\ manifest = Flatten(mfSource)
  /\ mfPc = "call"
  /\ mfName \in ConstantNames
  /\ mfResult = NoUpdate

MfUpdate ==
  /\ mfPc = "call"
  /\ \E o \in UpdateOutcomes(manifest, mfName, NewVersion) :
       /\ manifest' = o.content
       /\ mfResult' = [err |-> o.err, wrote |-> o.wrote]
  /\ mfPc' = "ret"
  /\ UNCHANGED <<mfSource, mfName, exVars, arVars, fsVars, rcVars, netVars, hkVars,
                 envVars, osVars, cfVars>>

SpecManifest == ManifestInit /\ [][MfUpdate]_vars

(***************************************************************************)
(* ExtractSwiftToolsVersion called on its own, as                          *)
(* TestExtractSwiftToolsVersion does, on the files put together from the   *)
(* lines of LinePool.                                                      *)
(***************************************************************************)
\* os.ReadFile can fail
ExtractOutcomes(content) ==
  {[err |-> "read", version |-> NoVersion], ExtractSwiftToolsVersion(content)}

ToolsInit ==
  /\ ExcludeIdle
  /\ srcTree = {}
  /\ arExclude = <<>>
  /\ ArchiveIdle
  /\ FsInit
  /\ ClientIdle
  /\ HookIdle
  /\ ConfigIdle
  /\ mfSource \in LineLists
  /\ manifest = Flatten(mfSource)
  /\ mfPc = "extract"
  /\ mfName = ""
  /\ mfResult = NoUpdate

MfExtract ==
  /\ mfPc = "extract"
  /\ \E o \in ExtractOutcomes(manifest) :
       mfResult' = [err |-> o.err, wrote |-> FALSE, version |-> o.version]
  /\ mfPc' = "extracted"
  /\ UNCHANGED <<manifest, mfSource, mfName, exVars, arVars, fsVars, rcVars, netVars,
                 hkVars, envVars, osVars, cfVars>>

SpecTools == ToolsInit /\ [][MfExtract]_vars

(***************************************************************************)
(* parseConfig called on its own, as TestSwiftPMPlugin_ParseConfig does,   *)
(* and Validate called as TestSwiftPMPlugin_Validate does.                 *)
(***************************************************************************)
ConfigInit ==
  /\ ExcludeIdle
  /\ srcTree = {}
  /\ arExclude = <<>>
  /\ ArchiveIdle
  /\ FsInit
  /\ ClientIdle
  /\ HookIdle
  /\ ManifestIdle
  /\ cfEnv \in Envs
  /\ cfOut = NoConfig
  /\ vdResp = NoValidation
  /\ \/ /\ cfPc = "parse"
        /\ cfRaw \in RawMaps
        /\ cfWorld = NoWorld
     \/ /\ cfPc = "validate"
        /\ cfRaw \in ValidateMaps
        /\ cfWorld \in Worlds

PcParse ==
  /\ cfPc = "parse"
  /\ cfOut' = parseConfig(cfRaw, cfEnv)
  /\ cfPc' = "parsed"
  /\ UNCHANGED <<cfRaw, cfEnv, cfWorld, vdResp, exVars, arVars, fsVars, rcVars, netVars,
                 hkVars, envVars, osVars, mfVars>>

VdValidate ==
  /\ cfPc = "validate"
  /\ cfOut' = parseConfig(cfRaw, cfEnv)
  /\ vdResp' = Validate(cfRaw, cfEnv, cfWorld)
  /\ cfPc' = "validated"
  /\ UNCHANGED <<cfRaw, cfEnv, cfWorld, exVars, arVars, fsVars, rcVars, netVars,
                 hkVars, envVars, osVars, mfVars>>

SpecConfig == ConfigInit /\ [][PcParse \/ VdValidate]_vars

(***************************************************************************)
(* Execute for the two hooks: executePrePublish and executePostPublish,    *)
(* step by step, run again and again with the same request.  The registry  *)
(* keeps at most one release per (scope, name, version) and rejects a      *)
(* publish of one it has; git refuses a tag it has.  The caller can cancel *)
(* the context of an invocation at any point of it.                        *)
(***************************************************************************)
RegistryURL == "https://swift.pkg.github.com"

TagPrefix == "v"

\* cfg.VersionConstant
VersionConstant == "N"

DryRunArchive ==
  [path |-> <<"/tmp/dry-run-archive.zip">>,
   checksum |-> [alg |-> "", hex |-> "", of |-> <<"dry-run-checksum">>]]

Triple(name) == <<Scope, name, Version>>

\* a call that hands Publish the dry-run placeholder for the checksum
PublishArgsPlaceholder(arch) ==
  [archivePath |-> arch.path, checksum |-> DryRunArchive.checksum]

\* client.Publish(ctx, cfg.Scope, packageName, version, archivePath, checksum)
PublishArgs(arch) == [archivePath |-> arch.path, checksum |-> arch.checksum]

\* the deferred os.Remove(archivePath), run at every return after it is set
RunDeferred(files, deferred, arch) ==
  IF deferred THEN [q \in DOMAIN files \ {arch.path} |-> files[q]] ELSE files

Resp(success, at, goErr, status) ==
  [success |-> success, at |-> at, goErr |-> goErr, status |-> status]

\* the external commands
DumpPackage == <<"swift", "package", "dump-package">>
ResolvePackage == <<"swift", "package", "resolve">>
BuildRelease == <<"swift", "build", "-c", "release">>
TestPackage == <<"swift", "test", "-c", "debug", "--parallel">>
GitTag(tag) == <<"git", "tag", tag>>

\* exec.CommandContext(ctx, ...) for the commands in turn, stopping at the
\* first that fails: with a cancelled context no process is started and the
\* context's error comes back; else they all exit with 0, or one does not
RunOutcomes(cmds) ==
  IF ctx.cancelled
  THEN {[err |-> "cancelled", started |-> <<>>]}
  ELSE {[err |-> "nil", started |-> cmds]}
         \cup {[err |-> "exit", started |-> SubSeq(cmds, 1, k)] : k \in 1..Len(cmds)}

\* a step of a hook that called something: which, whether it succeeded, and
\* whether the context was cancelled by then
Step(step, ok, ctxDone) == [step |-> step, ok |-> ok, ctxDone |-> ctxDone]

\* a hook that goes on whatever a step returned
FailedNever(err) == FALSE

\* if err != nil
Failed(err) == err # "nil"

\* a hook that goes on to publish whatever CreateArchive returned
ArchiveNeverFailed(ret) == FALSE

\* archivePath, checksum, err = CreateArchive(...); if err != nil
ArchiveFailed(ret) == ret.err # "nil"

\* return from the hook
HookReturn(resp) ==
  /\ hkResp' = resp
  /\ hkHistory' = Append(hkHistory, resp)
  /\ tmpFiles' = RunDeferred(tmpFiles, hkDefer, hkArch)
  /\ hkDefer' = FALSE
  /\ hkPc' = "done"

\* a dispatch that takes every hook for the pre-publish hook
DispatchAlwaysPre(hook) == "validate"

\* switch req.Hook: executePrePublish starts with the validation,
\* executePostPublish with the package name
Dispatch(hook) == IF hook = "pre" THEN "validate" ELSE "resolve"

\* Execute(ctx, req): the manifest path and work directory; os.Getwd can
\* fail, which is returned as a Go error
HookExecute ==
  /\ hkPc \in {"idle", "done"}
  /\ runs < MaxRuns
  /\ runs' = runs + 1
  /\ hkArch' = NoArchive
  /\ hkName' = ""
  /\ hkTrace' = <<>>
  /\ ctx' = NoCtx
  /\ \/ /\ hkPc' = Dispatch(hkHook)
        /\ UNCHANGED <<hkResp, hkHistory, hkDefer, tmpFiles>>
     \/ /\ HookReturn(Resp(FALSE, "getwd", TRUE, 0))
  /\ UNCHANGED <<exVars, arVars, tmpSeq, rcVars, netVars, cfg, hkHook, envVars,
                 procLog, mfVars, cfVars>>

\* the caller cancels the context while the hook runs
CtxCancel ==
  /\ hkPc \notin {"off", "idle", "done"}
  /\ ~ctx.cancelled
  /\ ctx' = [cancelled |-> TRUE, hk |-> hkPc, ar |-> arPc]
  /\ UNCHANGED <<exVars, arVars, fsVars, rcVars, netVars, hkVars, envVars, procLog, mfVars, cfVars>>

\* a step of the pre-publish hook that runs commands: skipped when it is not
\* enabled, logged when the run is dry, else run, and its error ends the hook
PreRun(here, enabled, cmds, next) ==
  /\ hkPc = here
  /\ IF ~enabled \/ cfg.dryRun
     THEN /\ hkPc' = next
          /\ UNCHANGED <<procLog, hkTrace, hkResp, hkHistory, hkDefer, tmpFiles>>
     ELSE \E o \in RunOutcomes(cmds) :
            /\ procLog' = procLog \o o.started
            /\ hkTrace' = Append(hkTrace, Step(here, o.err = "nil", ctx.cancelled))
            /\ IF Failed(o.err)
               THEN HookReturn(Resp(FALSE, here, FALSE, 0))
               ELSE /\ hkPc' = next
                    /\ UNCHANGED <<hkResp, hkHistory, hkDefer, tmpFiles>>
  /\ UNCHANGED <<exVars, arVars, tmpSeq, rcVars, netVars, cfg, runs, hkName, hkArch,
                 hkHook, envVars, ctx, mfVars, cfVars>>

\* swift.Validate: dump-package, then resolve
PreValidate ==
  /\ hkPc = "validate"
  /\ PreRun("validate", cfg.validate, <<DumpPackage, ResolvePackage>>, "build")

\* swift.Build(ctx, "release")
PreBuild ==
  /\ hkPc = "build"
  /\ PreRun("build", cfg.build, <<BuildRelease>>, "test")

\* swift.Test(ctx, cfg.TestConfig)
PreTest ==
  /\ hkPc = "test"
  /\ PreRun("test", cfg.test, <<TestPackage>>, "update")

\* UpdateVersionConstant(manifestPath, cfg.VersionConstant, version), then
\* the successful response
PreUpdate ==
  /\ hkPc = "update"
  /\ IF ~cfg.updateManifest \/ cfg.dryRun
     THEN /\ HookReturn(Resp(TRUE, "end", FALSE, 0))
          /\ UNCHANGED <<manifest, hkTrace>>
     ELSE \E o \in UpdateOutcomes(manifest, VersionConstant, NewVersion) :
            /\ manifest' = o.content
            /\ hkTrace' = Append(hkTrace, Step("update", o.err = "nil", ctx.cancelled))
            /\ IF Failed(o.err)
               THEN HookReturn(Resp(FALSE, "update", FALSE, 0))
               ELSE HookReturn(Resp(TRUE, "end", FALSE, 0))
  /\ UNCHANGED <<exVars, arVars, tmpSeq, rcVars, netVars, cfg, runs, hkName, hkArch,
                 hkHook, envVars, osVars, mfSource, mfPc, mfName, mfResult, cfVars>>

\* packageName: the configured override, or the name ParseManifest reads
\* from swift package dump-package, which can fail, as can the decoding of
\* its output
HookResolveName ==
  /\ hkPc = "resolve"
  /\ IF cfg.packageName # ""
     THEN /\ hkName' = cfg.packageName
          /\ hkPc' = "archive"
          /\ UNCHANGED <<procLog, hkTrace, hkResp, hkHistory, hkDefer, tmpFiles>>
     ELSE \E o \in RunOutcomes(<<DumpPackage>>)
                     \cup (IF ctx.cancelled THEN {}
                           ELSE {[err |-> "unmarshal", started |-> <<DumpPackage>>]}) :
            /\ procLog' = procLog \o o.started
            /\ hkTrace' = Append(hkTrace, Step("resolve", o.err = "nil", ctx.cancelled))
            /\ IF Failed(o.err)
               THEN /\ HookReturn(Resp(FALSE, "manifest", FALSE, 0))
                    /\ UNCHANGED hkName
               ELSE /\ hkName' = PkgName
                    /\ hkPc' = "archive"
                    /\ UNCHANGED <<hkResp, hkHistory, hkDefer, tmpFiles>>
  /\ UNCHANGED <<exVars, arVars, tmpSeq, rcVars, netVars, cfg, runs, hkArch, hkHook,
                 envVars, ctx, mfVars, cfVars>>

\* dry run: the placeholder path and checksum; else call
\* CreateArchive(workDir, version, cfg.Archive)
HookArchive ==
  /\ hkPc = "archive"
  /\ IF cfg.dryRun
     THEN /\ hkArch' = DryRunArchive
          /\ hkPc' = "publish"
          /\ UNCHANGED arVars
     ELSE /\ arPc' = "create"
          /\ arTodo' = <<>>
          /\ zipBuf' = <<>>
          /\ arOffset' = 0
          /\ arHash' = NoChecksum
          /\ arPath' = NoPath
          /\ arRet' = NoRet
          /\ arVersion' = Version
          /\ hkPc' = "archiving"
          /\ UNCHANGED <<hkArch, srcTree, arExclude, arIncludeDocs>>
  /\ UNCHANGED <<exVars, fsVars, rcVars, netVars, cfg, runs, hkName, hkDefer,
                 hkResp, hkHistory, hkHook, hkTrace, envVars, osVars, mfVars, cfVars>>

\* the context was cancelled before CreateArchive had walked the tree
CancelledInWalk ==
  /\ ctx.cancelled
  /\ \/ ctx.hk \in {"resolve", "archive"}
     \/ ctx.hk = "archiving" /\ ctx.ar \in {"create", "walk"}

\* CreateArchive returned: fail on its error, else defer the removal
HookArchived ==
  /\ hkPc = "archiving"
  /\ arPc \in {"done", "failed"}
  /\ hkTrace' = Append(hkTrace, Step("archive", arRet.err = "nil", CancelledInWalk))
  /\ IF ArchiveFailed(arRet)
     THEN /\ HookReturn(Resp(FALSE, "archive", FALSE, 0))
          /\ UNCHANGED hkArch
     ELSE /\ hkArch' = [path |-> arRet.path, checksum |-> arRet.checksum]
          /\ hkDefer' = TRUE
          /\ hkPc' = "publish"
          /\ UNCHANGED <<hkResp, hkHistory, tmpFiles>>
  /\ arPc' = "returned"
  /\ UNCHANGED <<exVars, srcTree, arExclude, arTodo, zipBuf, arOffset, arHash,
                 arPath, arRet, arVersion, arIncludeDocs, tmpSeq, rcVars, netVars,
                 cfg, runs, hkName, hkHook, envVars, osVars, mfVars, cfVars>>

\* what a registry holding `releases` does with a PUT of `triple`, and what
\* the client gets back: stored and answered, refused, or not reached
PutOutcomes(releases, triple, digest, run) ==
  LET stored == releases \cup {[triple |-> triple, digest |-> digest, by |-> run]}
      answer(st) == [sent |-> TRUE, status |-> st, body |-> IF st < 300 THEN "" ELSE "problem"]
      lost == [sent |-> FALSE, status |-> 0, body |-> ""]
  IN IF \E r \in releases : r.triple = triple
     THEN {[resp |-> answer(409), releases |-> releases],
           [resp |-> lost, releases |-> releases]}
     ELSE {[resp |-> answer(StatusCreated), releases |-> stored],
           [resp |-> answer(StatusOK), releases |-> stored],
           [resp |-> answer(500), releases |-> releases],
           [resp |-> lost, releases |-> releases]}

\* if cfg.Registry != "": dry run logs; else Publish, whose error fails the
\* hook; httpClient.Do with a cancelled context returns the context's error
HookPublish ==
  /\ hkPc = "publish"
  /\ IF cfg.registry = "" \/ cfg.dryRun
     THEN /\ hkPc' = "tag"
          /\ UNCHANGED <<httpLog, regReleases, hkTrace, hkResp, hkHistory, hkDefer, tmpFiles>>
     ELSE LET args == PublishArgs(hkArch)
          IN IF args.archivePath \notin DOMAIN tmpFiles
             THEN /\ HookReturn(Resp(FALSE, "publish", FALSE, 0))
                  /\ hkTrace' = Append(hkTrace, Step("publish", FALSE, ctx.cancelled))
                  /\ UNCHANGED <<httpLog, regReleases>>
             ELSE LET req == PublishRequest(Scope, hkName, Version, Token,
                                            tmpFiles[args.archivePath], args.checksum)
                  IN \E o \in PutOutcomes(regReleases, Triple(hkName), req.digest, runs) :
                       /\ ctx.cancelled => ~o.resp.sent
                       /\ httpLog' = Do(httpLog, req)
                       /\ regReleases' = o.releases
                       /\ hkTrace' = Append(hkTrace,
                             Step("publish", PublishResult(o.resp).err = NoErr, ctx.cancelled))
                       /\ IF PublishResult(o.resp).err # NoErr
                          THEN HookReturn(Resp(FALSE, "publish", FALSE, o.resp.status))
                          ELSE /\ hkPc' = "tag"
                               /\ UNCHANGED <<hkResp, hkHistory, hkDefer, tmpFiles>>
  /\ UNCHANGED <<exVars, arVars, tmpSeq, rcVars, cfg, runs, hkName, hkArch, hkHook,
                 gitTags, osVars, mfVars, cfVars>>

\* if cfg.CreateTag: dry run logs; else git tag, whose error fails the hook;
\* then the successful response
HookTag ==
  /\ hkPc = "tag"
  /\ LET tag == <<TagPrefix, Version>>
     IN IF ~cfg.createTag \/ cfg.dryRun
        THEN /\ HookReturn(Resp(TRUE, "end", FALSE, 0))
             /\ UNCHANGED <<gitTags, procLog, hkTrace>>
        ELSE \E o \in RunOutcomes(<<GitTag(tag)>>) :
               LET err == IF o.err = "nil" /\ tag \in gitTags THEN "exit" ELSE o.err
               IN /\ procLog' = procLog \o o.started
                  /\ hkTrace' = Append(hkTrace, Step("tag", err = "nil", ctx.cancelled))
                  /\ IF Failed(err)
                     THEN /\ HookReturn(Resp(FALSE, "tag", FALSE, 0))
                          /\ UNCHANGED gitTags
                     ELSE /\ gitTags' = gitTags \cup {tag}
                          /\ HookReturn(Resp(TRUE, "end", FALSE, 0))
  /\ UNCHANGED <<exVars, arVars, tmpSeq, rcVars, netVars, cfg, runs, hkName, hkArch,
                 hkHook, regReleases, ctx, mfVars, cfVars>>

HookSteps ==
  \/ HookExecute
  \/ CtxCancel
  \/ PreValidate
  \/ PreBuild
  \/ PreTest
  \/ PreUpdate
  \/ HookResolveName
  \/ HookArchive
  \/ HookArchived
  \/ HookPublish
  \/ HookTag

\* the configurations of the post-publish hook and of the pre-publish hook
PostConfigs ==
  [dryRun : BOOLEAN, packageName : {"", PkgName}, registry : {RegistryURL},
   createTag : BOOLEAN, validate : {TRUE}, build : {TRUE}, test : {TRUE},
   updateManifest : {FALSE}]

PreConfigs ==
  [dryRun : BOOLEAN, packageName : {""}, registry : {RegistryURL},
   createTag : {TRUE}, validate : BOOLEAN, build : BOOLEAN, test : BOOLEAN,
   updateManifest : BOOLEAN]

Configs == PostConfigs \cup PreConfigs

\* the trees and exclusion lists the hook is run on
HookTrees ==
  { {}, {Node(<<"a">>, FALSE), Node(<<"b">>, TRUE), Node(<<"b", Sep, "a">>, FALSE)} }

HookExcludes == { << <<"b", Sep>> >> }

\* the manifests the pre-publish hook is run on: with and without a
\* declaration of the version constant
HookManifests ==
  { <<Chunk("", <<Ws>>)>>,
    <<Chunk("N", <<"let", Ws, "N", Ws, "=", Ws, Quote, "o", Quote>>), Chunk("", <<Ws>>)>> }

\* the manifest the post-publish hook is run on
PostManifest ==
  <<Chunk("N", <<"let", Ws, "N", Ws, "=", Ws, Quote, "o", Quote>>), Chunk("", <<Ws>>)>>

\* a release of the triple somebody else published
ForeignRelease ==
  [triple |-> Triple(PkgName), digest |-> <<"sha-256=", NoChecksum>>, by |-> 0]

Init ==
  /\ ExcludeIdle
  /\ arExclude \in HookExcludes
  /\ ArchiveIdle
  /\ FsInit
  /\ ClientIdle
  /\ ConfigIdle
  /\ hkPc = "idle"
  /\ runs = 0
  /\ hkName = ""
  /\ hkArch = NoArchive
  /\ hkDefer = FALSE
  /\ hkResp = NoResp
  /\ hkHistory = <<>>
  /\ hkTrace = <<>>
  /\ gitTags = {}
  /\ procLog = <<>>
  /\ ctx = NoCtx
  /\ mfPc = "idle"
  /\ mfName = ""
  /\ mfResult = NoUpdate
  /\ \/ /\ hkHook = "post"
        /\ cfg \in PostConfigs
        /\ srcTree \in HookTrees
        /\ regReleases \in {{}, {ForeignRelease}}
        /\ mfSource = PostManifest
     \/ /\ hkHook = "pre"
        /\ cfg \in PreConfigs
        /\ srcTree = {}
        /\ regReleases = {}
        /\ mfSource \in HookManifests
  /\ manifest = Flatten(mfSource)

Next == HookSteps \/ ArchiveSteps

Spec == Init /\ [][Next]_vars

\* the registry client called on its own, or the hooks
NextAll == Next \/ ClientCalls

InitAll == Init \/ ClientInit

SpecAll == InitAll /\ [][NextAll]_vars

(***************************************************************************)
(* Properties of the archive builder.                                      *)
(***************************************************************************)
\* a path and the paths of the directories above it
Ancestry(path) ==
  {SubSeq(path, 1, k) : k \in {j \in 1..Len(path) : j = Len(path) \/ path[j + 1] = Sep}}

\* the files neither excluded themselves nor below an excluded directory
Kept(tree, exclude) ==
  {n \in tree : ~n.isDir /\ \A q \in Ancestry(n.path) : ~shouldExclude(q, exclude)}

\* C1: on success the members of the archive are exactly the files of the
\* source tree for which neither the file's relative path nor that of any
\* directory above it is excluded, each exactly once.
C1_MembersExact ==
  arPc = "done" =>
    LET names == NamesOf(tmpFiles[arRet.path])
        kept == Kept(srcTree, arExclude)
    IN /\ {names[i] : i \in 1..Len(names)} = {ToSlash(n.path) : n \in kept}
       /\ Len(names) = Cardinality(kept)

\* a success where a file that is not excluded itself was pruned with its
\* directory, and another file is a member
C1_Witness ==
  /\ arPc = "done"
  /\ \E n \in srcTree :
       ~n.isDir /\ ~shouldExclude(n.path, arExclude) /\ n \notin Kept(srcTree, arExclude)
  /\ NamesOf(tmpFiles[arRet.path]) # <<>>

\* C3: the digest is taken after the walk has ended and the zip writer has
\* been closed, over the file from its start to its end, nothing is written
\* to the file afterwards, and the checksum returned is the lowercase-hex
\* SHA-256 of the complete final file.
C3_DigestOfFinalFile ==
  /\ [](arPc \in {"fclose", "done"} =>
          LET data == tmpFiles[arPath]
          IN /\ arTodo = <<>>
             /\ zipBuf = <<>>
             /\ data # <<>>
             /\ data[Len(data)] = CentralDirectory(SubSeq(data, 1, Len(data) - 1))
             /\ arHash = Sha256Hex(data))
  /\ [](arPc = "done" =>
          /\ arRet.path = arPath
          /\ arRet.checksum = Sha256Hex(tmpFiles[arRet.path])
          /\ arRet.checksum.hex = "lower")
  /\ [][(arPc \in {"fclose", "done"} /\ arPath \in DOMAIN tmpFiles')
          => tmpFiles'[arPath] = tmpFiles[arPath]]_vars

C3_Witness ==
  /\ arPc = "done"
  /\ Len(tmpFiles[arRet.path]) >= 2
  /\ arRet.checksum.of = tmpFiles[arRet.path]

(***************************************************************************)
(* Properties of the registry client.                                      *)
(***************************************************************************)
\* C2: Publish returns no error only when the registry answered 200 or 201;
\* for every other status the error carries the status code and the body,
\* and a transport failure is returned as an error.
C2_PublishSuccessOnly200Or201 ==
  (rcPc = "ret" /\ rcOp = "Publish") =>
    /\ rcResult.err = NoErr =>
         /\ Len(httpLog) = 1
         /\ rcResp.sent
         /\ rcResp.status \in {200, 201}
    /\ (Len(httpLog) = 1 /\ rcResp.sent /\ rcResp.status \in {200, 201})
         => rcResult.err = NoErr
    /\ (Len(httpLog) = 1 /\ rcResp.sent /\ rcResp.status \notin {200, 201})
         => /\ rcResult.err.kind = "status"
            /\ rcResult.err.status = rcResp.status
            /\ rcResult.err.body = rcResp.body
    /\ (Len(httpLog) = 1 /\ ~rcResp.sent) => rcResult.err.kind = "transport"

C2_Witness ==
  /\ rcPc = "ret"
  /\ rcOp = "Publish"
  /\ Len(httpLog) = 1
  /\ rcResp.status = 409
  /\ rcResult.err.status = 409
  /\ rcResult.err.body = "problem"

\* C7: on 404 GetRelease returns no release and no error, ListReleases an
\* empty list and no error, VersionExists false and no error; VersionExists
\* is true iff GetRelease returns a release; every other status outside 2xx
\* is an error with the status code and the body, also from VersionExists.
C7_NotFoundIsAbsence ==
  (rcPc = "ret" /\ rcResp.sent /\ rcOp \in {"GetRelease", "ListReleases", "VersionExists"}) =>
    /\ rcResp.status = 404 =>
         /\ rcResult.err = NoErr
         /\ rcResult.releases = <<>>
         /\ rcResult.exists = FALSE
    /\ (rcResp.status # 404 /\ ~(rcResp.status >= 200 /\ rcResp.status < 300)) =>
         /\ rcResult.err.kind = "status"
         /\ rcResult.err.status = rcResp.status
         /\ rcResult.err.body = rcResp.body
    /\ rcOp = "VersionExists" =>
         (rcResult.exists <=> (rcResp.status = 200))

C7_Witness ==
  /\ rcPc = "ret"
  /\ rcOp = "VersionExists"
  /\ rcResp.sent
  /\ rcResp.status = 404
  /\ rcResult.exists = FALSE
  /\ rcResult.err = NoErr

C4_DigestOfBytesSent ==
  /\ [](\A i \in 1..Len(httpLog) :
          httpLog[i].method = "PUT" =>
            httpLog[i].digest = <<"sha-256=", Sha256Hex(httpLog[i].body)>>)
  /\ []((hkPc = "tag" /\ ~cfg.dryRun /\ cfg.registry # "") =>
          /\ httpLog # <<>>
          /\ arRet.err = "nil"
          /\ httpLog[Len(httpLog)].digest = <<"sha-256=", arRet.checksum>>
          /\ httpLog[Len(httpLog)].body = tmpFiles[arRet.path])
  /\ [][(hkPc = "publish" /\ hkArch.path \in DOMAIN tmpFiles /\ hkArch.path \in DOMAIN tmpFiles')
          => tmpFiles'[hkArch.path] = tmpFiles[hkArch.path]]_vars

C4_Witness ==
  /\ hkPc = "tag"
  /\ ~cfg.dryRun
  /\ httpLog # <<>>
  /\ NamesOf(httpLog[Len(httpLog)].body) # <<>>
  /\ httpLog[Len(httpLog)].digest = <<"sha-256=", arRet.checksum>>

\* C5: when CreateArchive fails it has removed the file and returns the
\* empty path and digest; when it succeeds the hook removes the file on
\* every return: no temp file is left outside the flow that made it.
C5_TempFileNeverOutlives ==
  /\ arPc = "failed" =>
       /\ arRet.path = NoPath
       /\ arRet.checksum = NoChecksum
       /\ arPath \notin DOMAIN tmpFiles
  /\ hkPc \notin {"archiving", "publish", "tag"} => DOMAIN tmpFiles = {}

\* a run that made the archive, was refused by the registry and returned
C5_Witness ==
  /\ hkPc = "done"
  /\ hkResp.at = "publish"
  /\ hkResp.status = 500
  /\ arRet.err = "nil"
  /\ tmpSeq >= 1
  /\ DOMAIN tmpFiles = {}

\* C6: when a run that failed is repeated with the same request, the
\* repetition is not failed by what the earlier runs left behind (it is not
\* refused for a release an earlier run stored), and the registry holds at
\* most one release for the triple.
C6_RerunNotFailedByEarlierRun ==
  /\ \A k \in 2..Len(hkHistory) :
       (/\ ~hkHistory[k - 1].success
        /\ ~hkHistory[k].success
        /\ hkHistory[k].at = "publish"
        /\ hkHistory[k].status = 409)
       => ~\E r \in regReleases : r.by \in 1..(k - 1)
  /\ \A r1, r2 \in regReleases : r1.triple = r2.triple => r1 = r2

(***************************************************************************)
(* Properties of the order of the steps of a hook.                         *)
(***************************************************************************)
\* where a step stands in its hook
StepRank(step) ==
  CASE step \in {"resolve", "validate"} -> 1
    [] step \in {"archive", "build"} -> 2
    [] step \in {"publish", "test"} -> 3
    [] OTHER -> 4

StepsOf(trace) == {trace[i].step : i \in 1..Len(trace)}

\* the steps were taken in the order of the hook, none twice
InOrder(trace) ==
  \A i, j \in 1..Len(trace) : i < j => StepRank(trace[i].step) < StepRank(trace[j].step)

\* no step was taken after one that failed
FailureEnds(trace) == \A i \in 1..(Len(trace) - 1) : trace[i].ok

Succeeded(trace, step) == \E i \in 1..Len(trace) : trace[i].step = step /\ trace[i].ok

\* C11: in a post-publish hook that is no dry run the steps are taken in the
\* order resolve, archive, publish, tag; a step that fails is the last and
\* the response is then unsuccessful without a Go error; publish is tried
\* only after the archive was built and the tag only after the publish
\* succeeded.
C11_PostPublishOrder ==
  (hkHook = "post" /\ ~cfg.dryRun) =>
    /\ StepsOf(hkTrace) \subseteq {"resolve", "archive", "publish", "tag"}
    /\ InOrder(hkTrace)
    /\ FailureEnds(hkTrace)
    /\ "publish" \in StepsOf(hkTrace) => Succeeded(hkTrace, "archive")
    /\ "tag" \in StepsOf(hkTrace) => Succeeded(hkTrace, "publish")
    /\ (hkPc = "done" /\ hkTrace # <<>> /\ ~hkTrace[Len(hkTrace)].ok) =>
         /\ ~hkResp.success
         /\ ~hkResp.goErr
    /\ (hkPc \notin {"idle", "done"} /\ hkTrace # <<>>) => hkTrace[Len(hkTrace)].ok
    /\ gitTags # {} => \E r \in regReleases : r.by >= 1

\* a run whose publish failed after the name was read and the archive built
C11_Witness ==
  /\ hkHook = "post"
  /\ ~cfg.dryRun
  /\ hkPc = "done"
  /\ Len(hkTrace) = 3
  /\ hkTrace[1].step = "resolve"
  /\ hkTrace[2].step = "archive"
  /\ hkTrace[3].step = "publish"
  /\ ~hkTrace[3].ok
  /\ ~hkResp.success
  /\ gitTags = {}

\* the steps of the pre-publish hook the configuration enables
EnabledPreSteps ==
  {st \in {"validate", "build", "test"} :
     \/ st = "validate" /\ cfg.validate
     \/ st = "build" /\ cfg.build
     \/ st = "test" /\ cfg.test}

\* C12: in a pre-publish hook that is no dry run the enabled steps are
\* taken in the order validate, build, test, update; a step that fails is
\* the last and the response is then unsuccessful without a Go error; the
\* manifest file changes only in the update step, after every enabled
\* earlier step has succeeded.
C12_PrePublishOrder ==
  /\ []((hkHook = "pre" /\ ~cfg.dryRun) =>
          /\ StepsOf(hkTrace) \subseteq {"validate", "build", "test", "update"}
          /\ StepsOf(hkTrace) \ {"update"} \subseteq EnabledPreSteps
          /\ InOrder(hkTrace)
          /\ FailureEnds(hkTrace)
          /\ (hkPc = "done" /\ hkTrace # <<>> /\ ~hkTrace[Len(hkTrace)].ok) =>
               /\ ~hkResp.success
               /\ ~hkResp.goErr
          /\ (hkPc \notin {"idle", "done"} /\ hkTrace # <<>>) => hkTrace[Len(hkTrace)].ok)
  /\ [][(hkHook = "pre" /\ manifest' # manifest) =>
          /\ hkPc = "update"
          /\ cfg.updateManifest
          /\ \A st \in EnabledPreSteps : Succeeded(hkTrace, st)
          /\ \A i \in 1..Len(hkTrace) : hkTrace[i].ok]_vars

\* a run whose tests failed after validate and build, the manifest as it was
C12_Witness ==
  /\ hkHook = "pre"
  /\ ~cfg.dryRun
  /\ cfg.updateManifest
  /\ hkPc = "done"
  /\ runs = 1
  /\ Len(hkTrace) = 3
  /\ hkTrace[3].step = "test"
  /\ ~hkTrace[3].ok
  /\ ~hkResp.success
  /\ PatternMatches(manifest, VersionConstant)
  /\ manifest = Flatten(mfSource)

(***************************************************************************)
(* Properties of dry runs and of cancellation.                             *)
(***************************************************************************)
\* C13: in a dry run neither hook starts an external process, sends a
\* request, creates an archive, rewrites the manifest, publishes or tags,
\* and once os.Getwd has succeeded the response is successful.
C13_DryRunNoSideEffects ==
  cfg.dryRun =>
    /\ procLog = <<>>
    /\ httpLog = <<>>
    /\ hkTrace = <<>>
    /\ tmpSeq = 0
    /\ manifest = Flatten(mfSource)
    /\ gitTags = {}
    /\ \A r \in regReleases : r.by = 0
    /\ (hkPc = "done" /\ hkResp.at # "getwd") => hkResp.success

\* the steps that run for long: the tree walk, the request, the processes
LongRunning == {"resolve", "archive", "publish", "tag", "validate", "build", "test"}

\* C14: a long-running step that is called with, or is overtaken by, a
\* cancelled context does not succeed.
C14_CancellationObserved ==
  \A i \in 1..Len(hkTrace) :
    (hkTrace[i].step \in LongRunning /\ hkTrace[i].ctxDone) => ~hkTrace[i].ok

HookNeverRepeats ==
  /\ InOrder(hkTrace)
  /\ hkPc # "off" => Len(httpLog) <= runs

\* C16 as stated: every call of a client operation has sent exactly one
\* request when it returns, and no hook repeats a step.
C16_ExactlyOneRequest ==
  /\ rcPc = "ret" => Len(httpLog) = 1
  /\ HookNeverRepeats

\* C16 amended: every call of a client operation has sent at most one
\* request when it returns, and exactly one unless it is a Publish that
\* could not open its archive file; no hook repeats a step.
C16_AtMostOneRequest ==
  /\ rcPc = "ret" =>
       /\ Len(httpLog) <= 1
       /\ Len(httpLog) = 0 =>
            /\ rcOp = "Publish"
            /\ TestArchivePath \notin DOMAIN tmpFiles
            /\ rcResult.err.kind = "file"
  /\ HookNeverRepeats

\* a call that failed and was not tried again
C16_Witness ==
  /\ rcPc = "ret"
  /\ rcOp = "GetRelease"
  /\ rcResp.status = 500
  /\ rcResult.err.kind = "status"
  /\ Len(httpLog) = 1

(***************************************************************************)
(* Properties of the members of the archive.                               *)
(***************************************************************************)
\* the member blocks written so far, to the zip writer or to the file
MembersWritten ==
  LET onDisk == IF arPath \in DOMAIN tmpFiles THEN tmpFiles[arPath] ELSE <<>>
      all == onDisk \o zipBuf
  IN {all[i] : i \in {j \in 1..Len(all) : all[j].kind = "member"}}

\* C17: every member ever written is a file of the source tree that is no
\* directory and not the root, named by its relative path with "/" for the
\* separator, deflated, with the mode bits and the bytes of that file.
C17_MembersAreFiles ==
  \A b \in MembersWritten :
    /\ b.name # Dot
    /\ b.method = "deflate"
    /\ \E n \in srcTree :
         /\ ~n.isDir
         /\ b.name = ToSlash(n.path)
         /\ \A i \in 1..Len(b.name) : b.name[i] = "/" <=> n.path[i] = Sep
         /\ b.mode = ModeOf(n.path)
         /\ b.body = ContentOf(n.path)

\* an archive of a tree with a directory that is kept: the file in it is a
\* member, the directory is none
C17_Witness ==
  /\ arPc = "done"
  /\ \E n \in srcTree, d \in srcTree :
       /\ ~n.isDir
       /\ d.isDir
       /\ Below(n.path, d.path)
       /\ ToSlash(n.path) \in {b.name : b \in MembersWritten}
       /\ ToSlash(d.path) \notin {b.name : b \in MembersWritten}

Declares(chunk, constantName) == chunk.decl = constantName

\* the fragment with what stands between its quotes replaced
WithValue(tokens, version) ==
  LET open == CHOOSE i \in 1..Len(tokens) :
                /\ tokens[i] = Quote
                /\ \A j \in 1..(i - 1) : tokens[j] # Quote
  IN SubSeq(tokens, 1, open) \o version \o <<Quote>>

\* the file in which every declaration of the constant has the new value
\* and every other fragment is as it was
RECURSIVE Updated(_, _, _)
Updated(chunks, constantName, version) ==
  IF chunks = <<>> THEN <<>>
  ELSE (IF Declares(Head(chunks), constantName)
        THEN WithValue(Head(chunks).tokens, version)
        ELSE Head(chunks).tokens)
         \o Updated(Tail(chunks), constantName, version)

HasDeclaration(chunks, constantName) ==
  \E i \in 1..Len(chunks) : Declares(chunks[i], constantName)

\* C19: on a file with at least one declaration of the constant the call
\* fails only on an I/O error, and when it succeeds the file holds the new
\* value in every declaration of the constant and is unchanged elsewhere.
C19_RewritesEveryDeclaration ==
  (mfPc = "ret" /\ HasDeclaration(mfSource, mfName)) =>
    /\ mfResult.err \in {"nil", "read", "write"}
    /\ mfResult.err = "nil" =>
         /\ mfResult.wrote
         /\ manifest = Updated(mfSource, mfName, NewVersion)

\* two declarations of the constant, one of them annotated, and one of
\* another constant, rewritten
C19_Witness ==
  /\ mfPc = "ret"
  /\ mfResult.err = "nil"
  /\ \E i, j, k \in 1..Len(mfSource) :
       /\ i # j
       /\ Declares(mfSource[i], mfName)
       /\ Declares(mfSource[j], mfName)
       /\ ":" \in {mfSource[j].tokens[n] : n \in 1..Len(mfSource[j].tokens)}
       /\ mfSource[k].decl \notin {"", mfName}
  /\ manifest # Flatten(mfSource)

\* C20: on a file with no declaration of the constant the call returns the
\* not-found error (or the error of reading the file), does not write, and
\* the file is as it was.
C20_NotFoundLeavesFile ==
  (mfPc = "ret" /\ ~HasDeclaration(mfSource, mfName)) =>
    /\ mfResult.err \in {"notfound", "read"}
    /\ ~mfResult.wrote
    /\ manifest = Flatten(mfSource)

\* a file with declarations, none of them of the constant
C20_Witness ==
  /\ mfPc = "ret"
  /\ mfResult.err = "notfound"
  /\ ~mfResult.wrote
  /\ Len(mfSource) >= 2
  /\ \E i \in 1..Len(mfSource) : mfSource[i].decl \notin {"", mfName}
  /\ manifest = Flatten(mfSource)

(***************************************************************************)
(* Properties of ExtractSwiftToolsVersion.  The leading directive of a     *)
(* file is its first line, when that line is a swift-tools-version comment *)
(* with a version of two or three numeric components.                      *)
(***************************************************************************)
HasLeadingDirective(lines) ==
  lines # <<>> /\ Head(lines).version # NoVersion

\* C21: on a file with a leading directive the call returns the version the
\* directive declares (or the error of reading the file); on a file with no
\* leading directive it fails with the not-found error (or the read error).
C21_LeadingDirectiveOrNotFound ==
  mfPc = "extracted" =>
    IF HasLeadingDirective(mfSource)
    THEN /\ mfResult.err \in {"nil", "read"}
         /\ mfResult.err = "nil" => mfResult.version = Head(mfSource).version
    ELSE mfResult.err \in {"notfound", "read"}

(***************************************************************************)
(* Properties of the two hooks taken together.                             *)
(***************************************************************************)
\* the commands of validate, build and test that only the pre-publish hook
\* runs (dump-package is also what the post-publish hook reads the package
\* name with)
PreOnlyCommands == {ResolvePackage, BuildRelease, TestPackage}

Started(cmds) == {i \in 1..Len(procLog) : procLog[i] \in cmds}

\* C22: the pre-publish hook never creates an archive, never sends a
\* registry request and never creates a tag; the post-publish hook never
\* runs validate, build or test and never modifies the manifest file.
C22_HooksDisjoint ==
  /\ hkHook = "pre" =>
       /\ arPc = "idle" /\ tmpSeq = 0 /\ tmpFiles = <<>>
       /\ httpLog = <<>> /\ regReleases = {}
       /\ gitTags = {} /\ Started({GitTag(<<TagPrefix, Version>>)}) = {}
       /\ StepsOf(hkTrace) \subseteq {"validate", "build", "test", "update"}
  /\ hkHook = "post" =>
       /\ Started(PreOnlyCommands) = {}
       /\ manifest = Flatten(mfSource)
       /\ StepsOf(hkTrace) \subseteq {"resolve", "archive", "publish", "tag"}

\* a pre-publish run that validated, built, tested and rewrote the manifest
C22_Witness ==
  /\ hkHook = "pre"
  /\ hkPc = "done"
  /\ hkResp.success
  /\ procLog = <<DumpPackage, ResolvePackage, BuildRelease, TestPackage>>
  /\ manifest # Flatten(mfSource)

(***************************************************************************)
(* Properties of Validate.  A check fails when swift is not in PATH, when  *)
(* the scope or the token is empty, when the registry URL does not parse,  *)
(* and when os.Stat reports that the manifest path does not exist.         *)
(***************************************************************************)
FailingChecks(config, world) ==
  {f \in {"swift", "scope", "token", "registry", "manifest_path"} :
     \/ f = "swift" /\ ~world.swift
     \/ f = "scope" /\ config.scope = ""
     \/ f = "token" /\ config.token = ""
     \/ f = "registry" /\ UrlParseFails(config.registry)
     \/ f = "manifest_path" /\ world.stat = "ENOENT"}

StringOption(key, field, envVar, default) ==
  [key |-> key, field |-> field, envVar |-> envVar, default |-> default]

StringOptions ==
  { StringOption("registry", "registry", "SWIFT_REGISTRY_URL", "https://swift.pkg.github.com"),
    StringOption("scope", "scope", "SWIFT_PACKAGE_SCOPE", ""),
    StringOption("token", "token", "SWIFT_REGISTRY_TOKEN", ""),
    StringOption("package_name", "packageName", "", ""),
    StringOption("manifest_path", "manifestPath", "", "Package.swift"),
    StringOption("version_constant", "versionConstant", "", "packageVersion"),
    StringOption("tag_prefix", "tagPrefix", "", "") }

BoolOption(key, field, default) == [key |-> key, field |-> field, default |-> default]

BoolOptions ==
  { BoolOption("update_manifest", "updateManifest", FALSE),
    BoolOption("create_tag", "createTag", TRUE),
    BoolOption("validate", "validate", TRUE),
    BoolOption("build", "build", TRUE),
    BoolOption("test", "test", TRUE),
    BoolOption("dry_run", "dryRun", FALSE) }

\* the map under a key of the raw map, empty when there is none
SubMap(raw, key) ==
  IF key \in DOMAIN raw /\ raw[key].t = "map" THEN raw[key].m ELSE <<>>

\* an option absent from the map has its default, one present with the
\* expected type has the value of the map
StringHolds(map, key, got, default) ==
  /\ key \notin DOMAIN map => got = default
  /\ (key \in DOMAIN map /\ map[key].t = "string") => got = map[key].s

BoolHolds(map, key, got, default) ==
  /\ key \notin DOMAIN map => got = default
  /\ (key \in DOMAIN map /\ map[key].t = "bool") => got = map[key].b

\* every option but the exclude list
ScalarOptionsHold ==
  /\ \A o \in StringOptions :
       IF o.envVar \in DOMAIN cfEnv
       THEN (o.key \in DOMAIN cfRaw /\ cfRaw[o.key].t = "string")
              => cfOut[o.field] = cfRaw[o.key].s
       ELSE StringHolds(cfRaw, o.key, cfOut[o.field], o.default)
  /\ \A o \in BoolOptions : BoolHolds(cfRaw, o.key, cfOut[o.field], o.default)
  /\ StringHolds(SubMap(cfRaw, "test_config"), "configuration",
                 cfOut.testConfig.configuration, "debug")
  /\ BoolHolds(SubMap(cfRaw, "test_config"), "coverage", cfOut.testConfig.coverage, FALSE)
  /\ BoolHolds(SubMap(cfRaw, "test_config"), "parallel", cfOut.testConfig.parallel, TRUE)
  /\ BoolHolds(SubMap(cfRaw, "archive"), "include_docs", cfOut.archive.includeDocs, TRUE)

\* the exclude list of the map is a list of strings
ExcludeGiven ==
  LET map == SubMap(cfRaw, "archive")
  IN /\ "exclude" \in DOMAIN map
     /\ map["exclude"].t = "list"
     /\ \A i \in 1..Len(map["exclude"].l) : map["exclude"].l[i].t = "string"

GivenExclude ==
  LET l == SubMap(cfRaw, "archive")["exclude"].l
  IN [i \in 1..Len(l) |-> l[i].s]

C26_ExcludeNeverEmpty ==
  cfPc = "parsed" =>
    /\ cfOut.archive.exclude # <<>>
    /\ LET map == SubMap(cfRaw, "archive")
       IN ("exclude" \in DOMAIN map /\ map["exclude"].t = "list"
             /\ \A i \in 1..Len(map["exclude"].l) : map["exclude"].l[i].t # "string")
            => cfOut.archive.exclude = DefaultExclude

\* an exclude list that is present and empty, answered with the defaults
C26_Witness ==
  /\ cfPc = "parsed"
  /\ "exclude" \in DOMAIN SubMap(cfRaw, "archive")
  /\ SubMap(cfRaw, "archive")["exclude"] = ListValue(<<>>)
  /\ cfOut.archive.exclude = DefaultExclude

(***************************************************************************)
(* Properties of the exclusion matcher.                                    *)
(***************************************************************************)
\* the list in the opposite order
Reversed(patterns) == [i \in 1..Len(patterns) |-> patterns[Len(patterns) + 1 - i]]

\* C25: the call is true exactly when one pattern of the list, taken alone,
\* excludes the path; it is false for the empty list, and reordering or
\* duplicating the patterns does not change it.
C25_AnyMatchWins ==
  exPc = "ret" =>
    /\ exResult <=> \E i \in 1..Len(exPatterns) : shouldExclude(exPath, <<exPatterns[i]>>)
    /\ exPatterns = <<>> => ~exResult
    /\ exResult <=> shouldExclude(exPath, Reversed(exPatterns))
    /\ exResult <=> shouldExclude(exPath, exPatterns \o exPatterns)

\* a path the first pattern of the list does not exclude and the second does
C25_Witness ==
  /\ exPc = "ret"
  /\ exResult
  /\ Len(exPatterns) = 2
  /\ ~shouldExclude(exPath, <<exPatterns[1]>>)
  /\ shouldExclude(exPath, <<exPatterns[2]>>)

\* C8: for the pattern list <<X/>>, shouldExclude(path) is true iff path = X
\* or path begins with X/, and false for every other path.
C8_DirPrefixExact ==
  (/\ exPc = "ret"
   /\ Len(exPatterns) = 1
   /\ HasSuffix(exPatterns[1], Sep))
  => LET X == SubSeq(exPatterns[1], 1, Len(exPatterns[1]) - 1)
     IN exResult = (exPath = X \/ HasPrefix(exPath, X \o <<Sep>>))

C8_Witness ==
  /\ exPc = "ret"
  /\ exPatterns = << <<"b", Sep>> >>
  /\ exPath = <<"b", Sep, "a">>
  /\ exResult = TRUE

\* C9: for a single pattern P without trailing separator, shouldExclude(path)
\* is true iff path = P verbatim or P glob-matches one whole segment of path
\* (the last one included); a segment is never matched in part.
C9_SegmentGlobExact ==
  (/\ exPc = "ret"
   /\ Len(exPatterns) = 1
   /\ ~HasSuffix(exPatterns[1], Sep))
  => LET P == exPatterns[1]
         segs == Split(exPath)
     IN exResult = (exPath = P
                    \/ \E i \in 1..Len(segs) : Match(P, segs[i]).matched)

C9_Witness ==
  /\ exPc = "ret"
  /\ exPatterns = << <<"*", "b">> >>
  /\ exPath = <<"a", Sep, "b">>
  /\ exResult = TRUE

\* the patterns of a list whose glob syntax is well formed, in order
WellFormed(patterns) == SelectSeq(patterns, LAMBDA p : ~BadPattern(p))

\* C10 as stated: shouldExclude always returns a boolean, and a malformed
\* pattern excludes no path: the result is that of the list without its
\* malformed patterns.
C10_MalformedExcludesNothing ==
  exPc = "ret" =>
    /\ exResult \in BOOLEAN
    /\ exResult = shouldExclude(exPath, WellFormed(exPatterns))

\* C10 amended: shouldExclude always returns a boolean, and a malformed
\* pattern never matches as a glob: it excludes a path only by verbatim
\* equality or, when it ends in a separator, by the directory-prefix rule,
\* and the other patterns of the list are evaluated as without it.
C10_MalformedOnlyLiteral ==
  exPc = "ret" =>
    /\ exResult \in BOOLEAN
    /\ exResult =
         (\/ shouldExclude(exPath, WellFormed(exPatterns))
          \/ \E i \in 1..Len(exPatterns) :
               /\ BadPattern(exPatterns[i])
               /\ \/ exPath = exPatterns[i]
                  \/ /\ HasSuffix(exPatterns[i], Sep)
                     /\ LET d == SubSeq(exPatterns[i], 1, Len(exPatterns[i]) - 1)
                        IN exPath = d \/ HasPrefix(exPath, d \o <<Sep>>))

C10_Witness ==
  /\ exPc = "ret"
  /\ exPatterns = << <<"[">>, <<"*", "b">> >>
  /\ exPath = <<"a", "b">>
  /\ exResult = TRUE

====
